---- MODULE Spec2Model ----
(***************************************************************************)
(* memboot: the incremental indexing pipeline (indexer.py) over the         *)
(* SQLite store (store.py), with the TF-IDF embedder (embedder.py), the     *)
(* remember operation (memory.py) and file ingestion (ingest/files.py),     *)
(* similarity search (query.py) and the file watcher (watcher.py).          *)
(*                                                                          *)
(* A text is a sequence of tokens (the result of _tokenize); a file's       *)
(* content is the sequence of fragment texts the chunker yields for it; a   *)
(* vector is kept symbolically: its length, and per vocabulary slot the     *)
(* integers its weight is computed from.                                    *)
(***************************************************************************)
EXTENDS Integers, Sequences, FiniteSets, TLC

VARIABLES fs, chunks, memories, meta, file_meta, last, dbs, outcome, watch, emb,
          chunker

vars == <<fs, chunks, memories, meta, file_meta, last, dbs, outcome, watch, emb, chunker>>

-----------------------------------------------------------------------------
(* Bounds of the model *)

\* number of indexable paths of the project tree
MaxFiles == 2
\* modification times a file can carry
MaxTime == 2
\* largest max_features a run's config may carry
MaxFeat == 2
\* number of notes remembered in one behaviour
MaxMemories == 1
\* number of fragments ingested from external files in one behaviour
MaxIngested == 1
\* largest top_k a search is called with (the least is -1)
MaxTopK == 2
\* number of runs the watcher may have started that have not returned
MaxInFlight == 2
\* number of ids the callers of add_chunks and add_memory draw from
MaxIds == 2
\* number of texts of a corpus an embedder is fitted on directly
MaxDocs == 3
\* length of the texts given to the sliding window
MaxText == 9
\* largest max_chunk_tokens and overlap_tokens of a configuration
MaxTokens == 2
\* number of windows after which a call of the sliding window is left alone
MaxIter == 4
\* number of search results handed to build_context
MaxResults == 3
\* number of top-level items of a Python file
MaxItems == 3
\* largest max_tokens of a call of build_context
MaxBudget == 70
\* memories remembered by callers that pass a type and tags
MaxRemembered == 2

-----------------------------------------------------------------------------
(* Program constants *)

\* MembootConfig.max_features default, TfidfEmbedder() default
DefaultMaxFeatures == 512
\* get_sentence_embedding_dimension() of the default model all-MiniLM-L6-v2
STDim == 384
\* watch_project(debounce=2.0), in units of time
Debounce == 2
\* MembootConfig.max_chunk_tokens
DefaultMaxChunkTokens == 500
\* MembootConfig.overlap_tokens
DefaultOverlapTokens == 50

-----------------------------------------------------------------------------
(* Input domains *)

\* project-relative paths with an allow-listed suffix
Paths == 1..MaxFiles
\* a project-relative path whose suffix is not in file_extensions
OtherPath == 0
AllPaths == Paths \cup {OtherPath}

T1 == <<"foo", "foo">>
T2 == <<"bar">>
T3 == <<"baz">>
\* what chunk_file yields for a file: no fragment (an empty or whitespace-only
\* file) or one fragment
FileContents == {<< >>, <<T1>>}
NoteTexts == {T3}
ExternalContents == {<<T2>>}
ExternalFile == MaxFiles + 1
\* an external file whose path, as given to ingest_file, begins with "memory:"
MemoryNamedFile == MaxFiles + 2
ExternalFiles == {ExternalFile, MemoryNamedFile}
Backends == {"tfidf", "sentence-transformers"}

NoFile == [present |-> FALSE, mtime |-> 0, content |-> << >>]

-----------------------------------------------------------------------------
(* Sequence helpers *)

Range(s) == {s[i] : i \in DOMAIN s}

Min(a, b) == IF a < b THEN a ELSE b

RECURSIVE SortedSeq(_)
\* sorted(...) of a set of paths
SortedSeq(S) ==
    IF S = {} THEN << >>
    ELSE LET m == CHOOSE x \in S : \A y \in S : x <= y
         IN <<m>> \o SortedSeq(S \ {m})

RECURSIVE SumLen(_)
SumLen(s) == IF s = << >> THEN 0 ELSE Len(Head(s)) + SumLen(Tail(s))

Count(tok, text) == Cardinality({i \in DOMAIN text : text[i] = tok})

\* all orderings of a finite set
Perms(S) ==
    {p \in [1..Cardinality(S) -> S] : \A i, j \in 1..Cardinality(S) : i # j => p[i] # p[j]}

-----------------------------------------------------------------------------
(* File system *)

\* st_size of a file
StSize(f) == SumLen(f.content)

Suffix(p) == IF p = OtherPath THEN ".bin" ELSE ".py"

FileExtensions == {".py", ".md", ".yaml", ".yml", ".json", ".txt", ".toml", ".cfg", ".ini", ".rst"}

\* discover_files: regular files with an allow-listed suffix, sorted
discover_files ==
    SortedSeq({p \in AllPaths : fs[p].present /\ Suffix(p) \in FileExtensions})

\* chunk_file: the fragments of one file
chunk_file(p) == fs[p].content

-----------------------------------------------------------------------------
(* Embedder *)

NoneEmbedding == [dim |-> -1, src |-> << >>, w |-> << >>]

\* TfidfEmbedder.__init__
TfidfEmbedder(max_features) ==
    [kind |-> "tfidf", max_features |-> max_features, vocabulary |-> << >>,
     idf |-> << >>, fitted |-> FALSE]

SentenceTransformerEmbedder ==
    [kind |-> "sentence-transformers", max_features |-> STDim, vocabulary |-> << >>,
     idf |-> << >>, fitted |-> TRUE]

\* get_embedder
get_embedder(backend, max_features) ==
    IF backend = "tfidf" THEN TfidfEmbedder(max_features) ELSE SentenceTransformerEmbedder

\* BaseEmbedder.dim
Dim(e) == IF e.kind = "tfidf" THEN e.max_features ELSE STDim

DocFreq(texts, tok) == Cardinality({i \in DOMAIN texts : tok \in Range(texts[i])})

FirstDoc(texts, tok) == CHOOSE i \in DOMAIN texts :
    /\ tok \in Range(texts[i])
    /\ \A j \in DOMAIN texts : tok \in Range(texts[j]) => i <= j

\* the orders sorted(doc_freq.items(), key=df, reverse=True) can produce: the
\* sort is stable over the insertion order of doc_freq, and tokens first met
\* in the same text are inserted in the iteration order of a set
SortedTokens(texts) ==
    LET toks == UNION {Range(texts[i]) : i \in DOMAIN texts}
    IN {p \in Perms(toks) : \A i, j \in DOMAIN p : i < j =>
            \/ DocFreq(texts, p[i]) > DocFreq(texts, p[j])
            \/ /\ DocFreq(texts, p[i]) = DocFreq(texts, p[j])
               /\ FirstDoc(texts, p[i]) <= FirstDoc(texts, p[j])}

\* TfidfEmbedder.fit: the embedders a fit on a non-empty corpus can yield;
\* idf[slot] is kept as the pair <<n_docs, df>> it is computed from
Fit(e, texts) ==
    {[e EXCEPT !.vocabulary = SubSeq(p, 1, Min(e.max_features, Len(p))),
               !.idf = [i \in 1..Min(e.max_features, Len(p)) |->
                            <<Len(texts), DocFreq(texts, p[i])>>],
               !.fitted = TRUE] : p \in SortedTokens(texts)}

\* TfidfEmbedder.save_state
save_state(e) ==
    [max_features |-> e.max_features, vocabulary |-> e.vocabulary, idf |-> e.idf]

\* from_state building the embedder with the default max_features
from_state_default_features(state) ==
    [kind |-> "tfidf", max_features |-> DefaultMaxFeatures,
     vocabulary |-> state.vocabulary, idf |-> state.idf, fitted |-> TRUE]

\* TfidfEmbedder.from_state
from_state(state) ==
    [kind |-> "tfidf", max_features |-> state.max_features,
     vocabulary |-> state.vocabulary, idf |-> state.idf, fitted |-> TRUE]

\* one row of embed_texts: per vocabulary slot <<count, total, n_docs, df>>
\* (tf = count/total, idf from n_docs and df; the row is then L2-normalised),
\* padded with zeros to max_features
embed_text(e, text) ==
    IF e.kind = "tfidf"
    THEN [dim |-> IF Len(e.vocabulary) < e.max_features THEN e.max_features
                  ELSE Len(e.vocabulary),
          src |-> << >>,
          w |-> [i \in 1..Len(e.vocabulary) |->
                    IF Count(e.vocabulary[i], text) > 0
                    THEN <<Count(e.vocabulary[i], text), Len(text), e.idf[i][1], e.idf[i][2]>>
                    ELSE <<0, 0, 0, 0>>]]
    ELSE [dim |-> STDim, src |-> text, w |-> << >>]

\* the embedding column written by add_chunks / add_memory: a falsy (empty)
\* list is stored as NULL
EmbBlob(embedding) == IF embedding.dim <= 0 THEN NoneEmbedding ELSE embedding

-----------------------------------------------------------------------------
(* Store *)

\* the project roots a caller can name: the project directory, a path that
\* does not exist, a path that is a regular file
Roots == {"project", "missing", "file"}

\* Path.is_dir
is_dir(root) == root = "project"

\* MembootStore.__init__: the database files after the store of `root` was
\* opened (sqlite3.connect and _init_db create the file and its empty tables)
MembootStore(d, root) == d \cup {root}

\* the record of the most recent call of search or of an operation of the
\* store: its arguments and its outcome; for add_chunks and add_memory, args
\* are the records passed and before is the table the call found
NoCall ==
    [op |-> "none", ret |-> "none", query |-> << >>, top_k |-> 0,
     include_memories |-> FALSE, results |-> << >>, scored |-> << >>,
     args |-> << >>, before |-> {}]

\* the watcher is not running.  waiting: the time left on each Timer that was
\* started and neither cancelled nor fired; inflight: the runs of _do_reindex
\* that have not returned.  The other fields record the history the
\* properties of the watcher speak of: since, the time passed since the last
\* relevant event; burst, the events of the current burst (2 for more); runs,
\* the invocations started since the burst began; pending, an event was seen
\* and no invocation has started after it; evbit flips at every event;
\* failed: "raised" once an invocation has raised, "event" once a relevant
\* event has followed it, "reindexed" once an invocation has started after
\* that event
NoWatch ==
    [running |-> FALSE, waiting |-> << >>, inflight |-> 0, since |-> 0, burst |-> 0,
     runs |-> 0, pending |-> FALSE, evbit |-> FALSE, failed |-> "no"]

\* no embedder is under test
NoEmb == [op |-> "none"]

\* no call of the chunker or of build_context is under way
NoChunker == [op |-> "none"]

\* an operation outside search, the store operations, the watcher and the
\* embedder under test
Idle == outcome' = NoCall /\ UNCHANGED <<watch, emb, chunker>>

HasMeta(m, key) == key \in DOMAIN m

\* MembootStore.set_meta
set_meta(m, key, value) == [k \in DOMAIN m \cup {key} |-> IF k = key THEN value ELSE m[k]]

\* str(embedder.dim) and int(store.get_meta("embedding_dim") or 0)
StrOf(n) == <<"str", n>>
IntOf(s) == s[2]

\* MembootStore.count_chunks
count_chunks(cs) == Cardinality(cs)

\* count_memories reading the chunks table instead of the memories table
count_memories_of_chunks(ms) == Cardinality(chunks)

\* MembootStore.count_memories
count_memories(ms) == Cardinality(ms)

\* MembootStore.delete_chunks_by_file
delete_chunks_by_file(cs, source_file) == {c \in cs : c.source_file # source_file}

\* MembootStore.delete_file_meta
delete_file_meta(fm, path) == [p \in DOMAIN fm \ {path} |-> fm[p]]

\* MembootStore.set_file_meta
set_file_meta(fm, path, mtime, size, chunk_count) ==
    [p \in DOMAIN fm \cup {path} |->
        IF p = path THEN [mtime |-> mtime, size |-> size, chunk_count |-> chunk_count]
        ELSE fm[p]]

\* add_chunks with INSERT OR IGNORE: a stored id keeps its record
add_chunks_ignore(cs, new) ==
    cs \cup {[new[i] EXCEPT !.embedding = EmbBlob(new[i].embedding)] :
                i \in {j \in DOMAIN new :
                          /\ \A c \in cs : c.id # new[j].id
                          /\ \A k \in DOMAIN new : k < j => new[k].id # new[j].id}}

\* MembootStore.add_chunks: INSERT OR REPLACE by id
\* for each chunk of the list in turn
add_chunks(cs, new) ==
    {c \in cs : \A i \in DOMAIN new : new[i].id # c.id}
       \cup {[new[i] EXCEPT !.embedding = EmbBlob(new[i].embedding)] :
                i \in {j \in DOMAIN new : \A k \in DOMAIN new : k > j => new[k].id # new[j].id}}

\* add_memory writing NULL into the embedding column
add_memory_without_embedding(ms, memory) ==
    {m \in ms : m.id # memory.id}
       \cup {[memory EXCEPT !.embedding = NoneEmbedding]}

\* MembootStore.add_memory: INSERT OR REPLACE by id
add_memory(ms, memory) ==
    {m \in ms : m.id # memory.id}
       \cup {[memory EXCEPT !.embedding = EmbBlob(memory.embedding)]}

\* clear_chunks deleting only the fragments of indexed files
clear_chunks_indexed(cs) == {c \in cs : c.source_file \notin DOMAIN file_meta}

\* MembootStore.clear_chunks: DELETE FROM chunks
clear_chunks(cs) == {}

\* MembootStore.clear_chunks: DELETE FROM file_meta
clear_file_meta(fm) == << >>

ChunksOf(cs, source_file) == {c \in cs : c.source_file = source_file}

Ids(records) == {r.id : r \in records}

-----------------------------------------------------------------------------
(* Summary *)

ProjectInfoDefaults ==
    [chunk_count |-> 0, memory_count |-> 0, last_indexed |-> "None",
     embedding_dim |-> 0, embedding_backend |-> "tfidf"]

\* ProjectInfo(**kwargs): a pydantic model keeps its declared fields, fills the
\* missing ones with their defaults and ignores every other keyword
ProjectInfo(kwargs) ==
    [f \in DOMAIN ProjectInfoDefaults |->
        IF f \in DOMAIN kwargs THEN kwargs[f] ELSE ProjectInfoDefaults[f]]

-----------------------------------------------------------------------------
(* Indexer *)

\* _categorize_files
categorize_files(files, stored_meta) ==
    LET same(p) == /\ fs[p].mtime = stored_meta[p].mtime
                   /\ StSize(fs[p]) = stored_meta[p].size
    IN [unchanged |-> SelectSeq(files, LAMBDA p : p \in DOMAIN stored_meta /\ same(p)),
        changed   |-> SelectSeq(files, LAMBDA p : p \in DOMAIN stored_meta /\ ~same(p)),
        new       |-> SelectSeq(files, LAMBDA p : p \notin DOMAIN stored_meta),
        deleted   |-> SortedSeq({p \in DOMAIN stored_meta : p \notin Range(files)})]

RECURSIVE DeleteAll(_, _)
\* for rel in paths: store.delete_chunks_by_file(rel)
DeleteAll(cs, paths) ==
    IF paths = << >> THEN cs
    ELSE DeleteAll(delete_chunks_by_file(cs, Head(paths)), Tail(paths))

RECURSIVE DeleteMetaAll(_, _)
\* for rel in deleted_files: store.delete_file_meta(rel)
DeleteMetaAll(fm, paths) ==
    IF paths = << >> THEN fm
    ELSE DeleteMetaAll(delete_file_meta(fm, Head(paths)), Tail(paths))

\* the removal loop run over the deleted files only
RemoveStaleDeletedOnly(cs, deleted_files, changed) == DeleteAll(cs, deleted_files)

\* the store after "Remove chunks for changed + deleted files"
RemoveStale(cs, deleted_files, changed) == DeleteAll(DeleteAll(cs, deleted_files), changed)

RECURSIVE ChunkResults(_)
\* the chunking loop over files_to_process, before ids are drawn
ChunkResults(files) ==
    IF files = << >> THEN << >>
    ELSE [i \in DOMAIN chunk_file(Head(files)) |->
             [content |-> chunk_file(Head(files))[i], source_file |-> Head(files)]]
         \o ChunkResults(Tail(files))

\* the ids stored records carry
UsedIds == {c.id : c \in chunks} \cup {m.id : m \in memories}

\* n calls of uuid4(): n distinct ids that no stored record carries (the least
\* such ids: which unused ids are drawn is not observable)
uuid4(n) ==
    SubSeq(SortedSeq((1..(Cardinality(UsedIds) + n)) \ UsedIds), 1, n)

\* Chunk(id=str(uuid4()), ...) for each result, then chunk.embedding = embeddings[i]
NewChunks(results, e) ==
    [i \in DOMAIN results |->
        [id |-> uuid4(Len(results))[i], content |-> results[i].content,
         source_file |-> results[i].source_file,
         embedding |-> embed_text(e, results[i].content)]]

RECURSIVE SetMetaAll(_, _)
\* for file_path in files_to_process: store.set_file_meta(rel, mtime, size, count)
SetMetaAll(fm, files) ==
    IF files = << >> THEN fm
    ELSE SetMetaAll(set_file_meta(fm, Head(files), fs[Head(files)].mtime,
                                  StSize(fs[Head(files)]), Len(chunk_file(Head(files)))),
                    Tail(files))

\* a run that always fits a new embedder
FitsNewAlways(force, m) == TRUE

\* "if force or not stored_state": whether the run fits a new embedder
FitsNew(force, m) == force \/ ~HasMeta(m, "tfidf_state")

\* the embedders the "Embed new chunks" step can end with, and whether it
\* writes tfidf_state
EmbedderChoices(texts, backend, max_features, force) ==
    LET e0 == get_embedder(backend, max_features)
    IN IF texts = << >> \/ e0.kind # "tfidf"
       THEN {[embedder |-> e0, step |-> "none"]}
       ELSE IF FitsNew(force, meta)
            THEN {[embedder |-> e, step |-> "fit"] : e \in Fit(e0, texts)}
            ELSE {[embedder |-> from_state(meta["tfidf_state"]), step |-> "restored"]}

\* the record of the most recent call: its arguments, the branch it took, the
\* lists it computed and the summary it returned
NoLast ==
    [op |-> "none", force |-> FALSE, ret |-> "none", full |-> FALSE,
     unchanged |-> << >>, changed |-> << >>, new |-> << >>, deleted |-> << >>,
     new_ids |-> {}, embed |-> "none", info |-> ProjectInfo(<< >>)]

\* what get_embedder(config.embedding_backend, max_features=...) raises: the
\* keyword reaches SentenceTransformerEmbedder.__init__, which takes none
get_embedder_raises(backend) == IF backend = "tfidf" THEN "none" ELSE "TypeError"

\* index_project(project_path, config, force) over a tree in which read_text
\* raises OSError for the files of unreadable
index_project_reading(force, backend, max_features, unreadable) ==
    LET chunks0 == IF force THEN clear_chunks(chunks) ELSE chunks
        fm0     == IF force THEN clear_file_meta(file_meta) ELSE file_meta
        files   == discover_files
        call    == [NoLast EXCEPT !.op = "index", !.force = force]
    IN
    IF files = << >>
    THEN /\ chunks' = chunks0
         /\ file_meta' = fm0
         /\ last' = [call EXCEPT !.ret = "no_files", !.info = ProjectInfo(<< >>)]
         /\ dbs' = MembootStore(dbs, "project")
         /\ UNCHANGED <<fs, memories, meta>>
    ELSE
    LET stored_meta == fm0
        full == force \/ DOMAIN stored_meta = {}
        cat  == categorize_files(files, stored_meta)
        files_to_process == IF full THEN files ELSE cat.changed \o cat.new
        deleted_files == IF full THEN << >> ELSE cat.deleted
        unchanged_count == IF full THEN 0 ELSE Len(cat.unchanged)
        changed_count == IF full THEN 0 ELSE Len(cat.changed)
        new_count == IF full THEN Len(files) ELSE Len(cat.new)
        chunks1 == IF full THEN chunks0 ELSE RemoveStale(chunks0, deleted_files, cat.changed)
        fm1 == IF full THEN fm0 ELSE DeleteMetaAll(fm0, deleted_files)
        cats == [call EXCEPT !.full = full,
                    !.unchanged = IF full THEN << >> ELSE cat.unchanged,
                    !.changed = IF full THEN << >> ELSE cat.changed,
                    !.new = IF full THEN files ELSE cat.new,
                    !.deleted = deleted_files]
    IN
    IF files_to_process = << >>
    THEN LET counts == [unchanged_files |-> unchanged_count, changed_files |-> 0,
                        new_files |-> 0, deleted_files |-> Len(deleted_files),
                        new_chunks |-> 0]
         IN /\ chunks' = chunks1
            /\ file_meta' = fm1
            /\ last' = [cats EXCEPT !.ret = "nothing_to_process",
                 !.info = ProjectInfo(
                    [chunk_count |-> count_chunks(chunks1),
                     memory_count |-> count_memories(memories),
                     last_indexed |-> IF HasMeta(meta, "last_indexed")
                                      THEN meta["last_indexed"] ELSE "None",
                     embedding_dim |-> IF HasMeta(meta, "embedding_dim")
                                       THEN IntOf(meta["embedding_dim"]) ELSE 0,
                     embedding_backend |-> backend,
                     metadata |-> counts])]
            /\ dbs' = MembootStore(dbs, "project")
            /\ UNCHANGED <<fs, memories, meta>>
    ELSE IF Range(files_to_process) \cap unreadable # {}
              \/ get_embedder_raises(backend) # "none"
    THEN /\ chunks' = chunks1
         /\ file_meta' = fm1
         /\ last' = [cats EXCEPT !.op = "index_raises",
                 !.ret = IF Range(files_to_process) \cap unreadable # {}
                         THEN "ChunkError" ELSE get_embedder_raises(backend)]
         /\ dbs' = MembootStore(dbs, "project")
         /\ UNCHANGED <<fs, memories, meta>>
    ELSE
    LET results == ChunkResults(files_to_process)
        texts == [i \in DOMAIN results |-> results[i].content]
    IN
    \E choice \in EmbedderChoices(texts, backend, max_features, force) :
        LET embedder == choice.embedder
            new_chunks == NewChunks(results, embedder)
            meta1 == IF choice.step = "fit"
                     THEN set_meta(meta, "tfidf_state", save_state(embedder))
                     ELSE meta
            chunks2 == add_chunks(chunks1, new_chunks)
            fm2 == SetMetaAll(fm1, files_to_process)
            meta2 == set_meta(set_meta(set_meta(set_meta(meta1,
                        "embedding_dim", StrOf(Dim(embedder))),
                        "embedding_backend", backend),
                        "last_indexed", "now"),
                        "project_path", "project")
            counts == [unchanged_files |-> unchanged_count, changed_files |-> changed_count,
                       new_files |-> new_count, deleted_files |-> Len(deleted_files),
                       new_chunks |-> Len(new_chunks)]
        IN /\ chunks' = chunks2
           /\ file_meta' = fm2
           /\ meta' = meta2
           /\ last' = [cats EXCEPT !.ret = "processed", !.embed = choice.step,
                 !.new_ids = {new_chunks[i].id : i \in DOMAIN new_chunks},
                 !.info = ProjectInfo(
                    [chunk_count |-> count_chunks(chunks2),
                     memory_count |-> count_memories(memories),
                     last_indexed |-> "now",
                     embedding_dim |-> Dim(embedder),
                     embedding_backend |-> backend,
                     metadata |-> counts])]
           /\ dbs' = MembootStore(dbs, "project")
           /\ UNCHANGED <<fs, memories>>

\* index_project(project_path, config, force) over a tree of readable files
index_project(force, backend, max_features) ==
    index_project_reading(force, backend, max_features, {})

\* index_project(path, force=...) while one file may be unreadable
IndexProjectReading ==
    \E force \in BOOLEAN, unreadable \in {{}} \cup {{p} : p \in Paths} :
        index_project_reading(force, "tfidf", DefaultMaxFeatures, unreadable) /\ Idle

\* index_project(path, force=...) with the default MembootConfig
IndexProject ==
    \E force \in BOOLEAN : index_project(force, "tfidf", DefaultMaxFeatures) /\ Idle

\* index_project(path, config, force) with a config of the caller
IndexProjectWith ==
    \E force \in BOOLEAN, backend \in Backends, max_features \in 1..MaxFeat :
        index_project(force, backend, max_features) /\ Idle

-----------------------------------------------------------------------------
(* remember and ingest *)

\* _restore_embedder
restore_embedder ==
    LET backend == IF HasMeta(meta, "embedding_backend") THEN meta["embedding_backend"]
                   ELSE "tfidf"
    IN IF backend = "tfidf" /\ HasMeta(meta, "tfidf_state")
       THEN from_state(meta["tfidf_state"])
       ELSE get_embedder(backend, DefaultMaxFeatures)

\* remember(content, memory_type, project_path, tags)
remember(content, memory_type, tags) ==
    /\ \E embedder \in (IF restore_embedder.kind = "tfidf" /\ ~restore_embedder.fitted
                        THEN Fit(restore_embedder, <<content>>)
                        ELSE {restore_embedder}) :
         memories' = add_memory(memories,
            [id |-> uuid4(1)[1], content |-> content, memory_type |-> memory_type,
             tags |-> tags, embedding |-> embed_text(embedder, content)])
    /\ last' = [NoLast EXCEPT !.op = "remember"]
    /\ dbs' = MembootStore(dbs, "project")
    /\ UNCHANGED <<fs, chunks, meta, file_meta>>

Remember ==
    /\ Cardinality(memories) < MaxMemories
    /\ \E content \in NoteTexts : remember(content, "note", << >>) /\ Idle

\* the notes, types and tag lists callers pass to remember (tags=None is
\* stored as the empty list)
RememberedTexts == {T3}
MemoryTypes == {"decision", "note"}
TagLists == {<< >>, <<"arch">>}

\* remember(content, memory_type, project_path, tags) of a caller
RememberWith ==
    /\ Cardinality(memories) < MaxRemembered
    /\ \E content \in RememberedTexts, memory_type \in MemoryTypes, tags \in TagLists :
          /\ remember(content, memory_type, tags)
          /\ outcome' = [NoCall EXCEPT !.op = "remember", !.ret = "ok",
                                       !.args = <<content, memory_type, tags>>]
    /\ UNCHANGED <<watch, emb, chunker>>

\* ingest_file(file_path, project_path, config), for a readable external file
\* with an allow-listed suffix
ingest_file(file_path, content) ==
    LET results == [i \in DOMAIN content |->
                       [content |-> content[i], source_file |-> file_path]]
        texts == [i \in DOMAIN results |-> results[i].content]
        backend == IF HasMeta(meta, "embedding_backend") THEN meta["embedding_backend"]
                   ELSE "tfidf"
    IN /\ IF results = << >>
          THEN UNCHANGED chunks
          ELSE \E embedder \in (IF backend = "tfidf"
                                THEN IF HasMeta(meta, "tfidf_state")
                                     THEN {from_state(meta["tfidf_state"])}
                                     ELSE Fit(TfidfEmbedder(DefaultMaxFeatures), texts)
                                ELSE {get_embedder(backend, DefaultMaxFeatures)}) :
                    chunks' = add_chunks(chunks, NewChunks(results, embedder))
       /\ last' = [NoLast EXCEPT !.op = "ingest"]
       /\ dbs' = MembootStore(dbs, "project")
       /\ UNCHANGED <<fs, memories, meta, file_meta>>

IngestFile ==
    /\ Cardinality({c \in chunks : c.source_file \in ExternalFiles}) < MaxIngested
    /\ \E content \in ExternalContents : ingest_file(ExternalFile, content) /\ Idle

\* ingest_file for an external file of any name
IngestFileNamed ==
    /\ Cardinality({c \in chunks : c.source_file \in ExternalFiles}) < MaxIngested
    /\ \E file_path \in ExternalFiles, content \in ExternalContents :
          ingest_file(file_path, content) /\ Idle

-----------------------------------------------------------------------------
(* Similarity search *)

\* 1000 * ln(k)
LnMilli(k) ==
    CASE k = 1 -> 0 [] k = 2 -> 693 [] k = 3 -> 1099 [] k = 4 -> 1386
      [] k = 5 -> 1609 [] k = 6 -> 1792 [] k = 7 -> 1946 [] k = 8 -> 2079

\* idf[idx] = np.log(n_docs / (1 + df)) + 1.0, in thousandths
IdfMilli(n_docs, df) == LnMilli(n_docs) - LnMilli(1 + df) + 1000

RECURSIVE SqrtBetween(_, _, _)
SqrtBetween(n, lo, hi) ==
    IF lo >= hi THEN lo
    ELSE LET mid == (lo + hi + 1) \div 2
         IN IF mid * mid <= n THEN SqrtBetween(n, mid, hi) ELSE SqrtBetween(n, lo, mid - 1)

\* np.linalg.norm of a row of weights in thousandths
Norm(row) ==
    LET sq == [i \in DOMAIN row |-> row[i] * row[i]]
        sum[i \in 0..Len(row)] == IF i = 0 THEN 0 ELSE sum[i - 1] + sq[i]
    IN SqrtBetween(sum[Len(row)], 0, 4000)

\* the numbers of a stored or computed vector, in ten-thousandths: tf * idf per
\* vocabulary slot, the row divided by its norm (a zero row stays zero)
Vector(embedding) ==
    LET row == [i \in DOMAIN embedding.w |->
                   IF embedding.w[i][1] = 0 THEN 0
                   ELSE (embedding.w[i][1] * IdfMilli(embedding.w[i][3], embedding.w[i][4]))
                            \div embedding.w[i][2]]
        norm == IF Norm(row) = 0 THEN 1 ELSE Norm(row)
    IN [i \in DOMAIN row |-> (row[i] * 10000) \div norm]

\* cosine_similarity: np.dot of two vectors of the same length, rounded to 4
\* places as round(score, 4) does
cosine_similarity(a, b) ==
    LET va == Vector(a)
        vb == Vector(b)
        n == Min(Len(va), Len(vb))
        sum[i \in 0..n] == IF i = 0 THEN 0 ELSE sum[i - 1] + va[i] * vb[i]
    IN sum[n] \div 10000

\* _restore_embedder as memory.py has it: no state, a new embedder
query_restore_unfitted(m) ==
    [raises |-> IF restore_embedder.fitted THEN "none" ELSE "EmbedError",
     embedder |-> restore_embedder]

\* _restore_embedder of query.py
query_restore_embedder(m) ==
    LET backend == IF HasMeta(m, "embedding_backend") THEN m["embedding_backend"]
                   ELSE "tfidf"
    IN IF backend = "tfidf"
       THEN IF ~HasMeta(m, "tfidf_state")
            THEN [raises |-> "QueryError", embedder |-> TfidfEmbedder(DefaultMaxFeatures)]
            ELSE [raises |-> "none", embedder |-> from_state(m["tfidf_state"])]
       ELSE [raises |-> "none", embedder |-> get_embedder(backend, DefaultMaxFeatures)]

\* MembootStore.get_all_chunk_embeddings / get_all_memory_embeddings
get_all_embeddings(records) == {r \in records : r.embedding # NoneEmbedding}

\* seq[:k]
PySlice(seq, k) ==
    IF k >= 0 THEN SubSeq(seq, 1, Min(k, Len(seq)))
    ELSE SubSeq(seq, 1, IF Len(seq) + k > 0 THEN Len(seq) + k ELSE 0)

\* the (id, score, type) tuples of the rows of one table, in a row order the
\* table can return them in
ScoredRows(query_vec, records, type) ==
    {[i \in DOMAIN p |-> [id |-> p[i].id,
                           score |-> cosine_similarity(query_vec, p[i].embedding),
                           type |-> type]] : p \in Perms(records)}

RECURSIVE InsertByScore(_, _)
\* x placed after every element whose score is not lower
InsertByScore(sorted, x) ==
    IF sorted = << >> THEN <<x>>
    ELSE IF Head(sorted).score >= x.score THEN <<Head(sorted)>> \o InsertByScore(Tail(sorted), x)
         ELSE <<x>> \o sorted

\* a sort that leaves the list as it is
SortByScoreNot(scored) == scored

RECURSIVE SortByScore(_)
\* scored.sort(key=score, reverse=True): stable, descending
SortByScore(scored) ==
    IF scored = << >> THEN << >>
    ELSE InsertByScore(SortByScore(SubSeq(scored, 1, Len(scored) - 1)), scored[Len(scored)])

\* str(path) of a stored source_file / f"memory:{item_id}": the first seven
\* characters of the string (when they are "memory:") and the rest
SourceOfFile(source_file) ==
    [prefix |-> IF source_file = MemoryNamedFile THEN "memory:" ELSE "", rest |-> source_file]
SourceOfMemory(item_id) == [prefix |-> "memory:", rest |-> item_id]

\* store.get_chunk / store.get_memory
get_record(records, id) == CHOOSE r \in records : r.id = id

\* the SearchResult list for the selected tuples
Hydrate(top) ==
    [i \in DOMAIN top |->
        IF top[i].type = "memory"
        THEN [content |-> get_record(memories, top[i].id).content,
              source |-> SourceOfMemory(top[i].id), score |-> top[i].score]
        ELSE [content |-> get_record(chunks, top[i].id).content,
              source |-> SourceOfFile(get_record(chunks, top[i].id).source_file),
              score |-> top[i].score]]

\* search(query_text, project_path, top_k, include_memories)
search(query_text, top_k, include_memories) ==
    LET args == [NoCall EXCEPT !.op = "search", !.query = query_text, !.top_k = top_k,
                               !.include_memories = include_memories]
        restored == query_restore_embedder(meta)
        query_vec == embed_text(restored.embedder, query_text)
        cs == get_all_embeddings(chunks)
        ms == IF include_memories THEN get_all_embeddings(memories) ELSE {}
    IN /\ IF "project" \notin dbs
          THEN outcome' = [args EXCEPT !.ret = "QueryError"]
          ELSE IF restored.raises # "none"
          THEN outcome' = [args EXCEPT !.ret = restored.raises]
          ELSE IF \/ \E r \in cs : r.embedding.dim # query_vec.dim
                  \/ \E r \in ms : r.embedding.dim # query_vec.dim
          THEN outcome' = [args EXCEPT !.ret = "ValueError"]
          ELSE \E crows \in ScoredRows(query_vec, cs, "chunk"),
                  mrows \in ScoredRows(query_vec, ms, "memory") :
                  LET top == PySlice(SortByScore(crows \o mrows), top_k)
                  IN outcome' = [args EXCEPT !.ret = "ok", !.scored = top,
                                            !.results = Hydrate(top)]
       /\ UNCHANGED <<fs, chunks, memories, meta, file_meta, last, dbs, watch, emb, chunker>>

Queries == {T1}

Search ==
    \E query_text \in Queries, top_k \in (0 - 1)..MaxTopK, include_memories \in BOOLEAN :
        search(query_text, top_k, include_memories)

-----------------------------------------------------------------------------
(* Operations of the store and calls that fail *)

\* whether index_project, called on `root`, gets to open the store: the
\* is_dir check precedes get_db_path and MembootStore(db_path)
OpensStoreAlways(root) == TRUE

OpensStore(root) == is_dir(root)

\* index_project on a root that is no directory: raises IndexingError
index_project_raises(root) ==
    /\ ~is_dir(root)
    /\ dbs' = IF OpensStore(root) THEN MembootStore(dbs, root) ELSE dbs
    /\ outcome' = [NoCall EXCEPT !.op = "index_project", !.ret = "IndexingError"]
    /\ UNCHANGED <<fs, chunks, memories, meta, file_meta, last, watch, emb, chunker>>

IndexProjectRaises == \E root \in Roots : index_project_raises(root)

\* MembootStore(db_path).clear_chunks()
StoreClearChunks ==
    /\ chunks' = clear_chunks(chunks)
    /\ file_meta' = clear_file_meta(file_meta)
    /\ dbs' = MembootStore(dbs, "project")
    /\ last' = NoLast
    /\ outcome' = [NoCall EXCEPT !.op = "clear_chunks", !.ret = "ok"]
    /\ UNCHANGED <<fs, memories, meta, watch, emb, chunker>>

\* reset keeping the key/value metadata table
reset_keeps_meta(m) == m

\* MembootStore.reset: DROP TABLE meta, then _init_db
reset_meta(m) == << >>

\* MembootStore(db_path).reset()
StoreReset ==
    /\ chunks' = {}
    /\ memories' = {}
    /\ meta' = reset_meta(meta)
    /\ file_meta' = << >>
    /\ dbs' = MembootStore(dbs, "project")
    /\ last' = NoLast
    /\ outcome' = [NoCall EXCEPT !.op = "reset", !.ret = "ok"]
    /\ UNCHANGED <<fs, watch, emb, chunker>>

\* MembootStore.delete_memory
store_delete_memory(ms, memory_id) == {m \in ms : m.id # memory_id}

\* delete_memory(memory_id, project_path) of a stored memory
DeleteMemory ==
    \E m \in memories :
        /\ "project" \in dbs
        /\ memories' = store_delete_memory(memories, m.id)
        /\ last' = NoLast
        /\ outcome' = [NoCall EXCEPT !.op = "delete_memory", !.ret = "ok"]
        /\ UNCHANGED <<fs, chunks, meta, file_meta, dbs, watch, emb, chunker>>

\* index_project(path, config, force) with a TF-IDF config of the caller
IndexProjectTfidf ==
    \E force \in BOOLEAN, max_features \in 1..MaxFeat :
        index_project(force, "tfidf", max_features) /\ Idle

-----------------------------------------------------------------------------
(* The project tree changes between calls *)

\* a file of the tree is created or rewritten
write_file(p, t, c) ==
    /\ fs[p] # [present |-> TRUE, mtime |-> t, content |-> c]
    /\ fs' = [fs EXCEPT ![p] = [present |-> TRUE, mtime |-> t, content |-> c]]
    /\ last' = NoLast
    /\ UNCHANGED <<chunks, memories, meta, file_meta, dbs>>

WriteFile ==
    \E p \in Paths, t \in 1..MaxTime, c \in FileContents : write_file(p, t, c) /\ Idle

\* the same in a project of one indexable file
WriteOnlyFile == \E t \in 1..MaxTime, c \in FileContents : write_file(1, t, c) /\ Idle

\* the one indexable file of a project is created
CreateOnlyFile == write_file(1, 1, <<T1>>) /\ Idle

RemoveFile ==
    \E p \in Paths :
        /\ fs[p].present
        /\ fs' = [fs EXCEPT ![p] = NoFile]
        /\ last' = NoLast
        /\ UNCHANGED <<chunks, memories, meta, file_meta, dbs>>
        /\ Idle

-----------------------------------------------------------------------------
(* The watcher *)

\* _Handler._is_relevant: allow-listed suffix (every path of the model is
\* inside the project and has no ignored component)
is_relevant(p) == Suffix(p) \in FileExtensions

\* a cancel that stops no timer
timer_cancel_noop(waiting) == waiting

\* timer.cancel() for the timer the watcher holds: every timer started
\* earlier was cancelled when it was replaced, or has fired
timer_cancel(waiting) == << >>

\* a timer that is created and never started
timer_not_started(waiting, interval) == waiting

\* threading.Timer(debounce, _do_reindex).start()
timer_start(waiting, interval) == Append(waiting, interval)

\* _schedule_reindex, under the lock
schedule_reindex(w) ==
    [w EXCEPT !.waiting = timer_start(timer_cancel(w.waiting), Debounce),
              !.since = 0,
              !.burst = IF w.waiting = << >> THEN 1 ELSE Min(w.burst + 1, 2),
              !.runs = IF w.waiting = << >> THEN 0 ELSE w.runs,
              !.pending = TRUE,
              !.evbit = ~w.evbit,
              !.failed = IF w.failed = "raised" THEN "event" ELSE w.failed]

\* watch_project: the observer is started
StartWatch ==
    /\ watch = NoWatch
    /\ watch' = [NoWatch EXCEPT !.running = TRUE]
    /\ UNCHANGED <<fs, chunks, memories, meta, file_meta, last, dbs, outcome, emb, chunker>>

\* on_created / on_modified: a relevant file is written while the watcher runs
FileWritten ==
    \E t \in 1..MaxTime :
        /\ watch.running
        /\ is_relevant(1)
        /\ write_file(1, t, <<T1>>)
        /\ watch' = schedule_reindex(watch)
        /\ UNCHANGED <<outcome, emb, chunker>>

\* on_deleted: a relevant file is removed while the watcher runs
FileDeleted ==
    /\ watch.running
    /\ is_relevant(1)
    /\ fs[1].present
    /\ fs' = [fs EXCEPT ![1] = NoFile]
    /\ last' = NoLast
    /\ watch' = schedule_reindex(watch)
    /\ UNCHANGED <<chunks, memories, meta, file_meta, dbs, outcome, emb, chunker>>

\* an event on a file that is not relevant: the handler returns
IrrelevantEvent ==
    \E t \in 1..MaxTime :
        /\ watch.running
        /\ ~is_relevant(OtherPath)
        /\ write_file(OtherPath, t, <<T1>>)
        /\ UNCHANGED <<watch, outcome, emb, chunker>>

\* time passes: Timer.run waits in finished.wait(interval)
Tick ==
    /\ \E i \in DOMAIN watch.waiting : watch.waiting[i] > 0
    /\ watch' = [watch EXCEPT
            !.waiting = [i \in DOMAIN watch.waiting |->
                            IF watch.waiting[i] > 0 THEN watch.waiting[i] - 1 ELSE 0],
            !.since = Min(watch.since + 1, Debounce)]
    /\ UNCHANGED <<fs, chunks, memories, meta, file_meta, last, dbs, outcome, emb, chunker>>

\* Timer.run: the wait is over and the timer was not cancelled; _do_reindex
\* starts and calls index_project
TimerFires ==
    \E i \in DOMAIN watch.waiting :
        /\ watch.waiting[i] = 0
        /\ watch.inflight < MaxInFlight
        /\ watch' = [watch EXCEPT
                !.waiting = [j \in 1..(Len(watch.waiting) - 1) |->
                                IF j < i THEN watch.waiting[j] ELSE watch.waiting[j + 1]],
                !.inflight = watch.inflight + 1,
                !.runs = Min(watch.runs + 1, 2),
                !.pending = FALSE,
                !.failed = IF watch.failed = "event" THEN "reindexed" ELSE watch.failed]
        /\ UNCHANGED <<fs, chunks, memories, meta, file_meta, last, dbs, outcome, emb, chunker>>

\* _do_reindex: index_project(project_path, config=config) returns
ReindexReturns ==
    /\ watch.inflight > 0
    /\ index_project(FALSE, "tfidf", DefaultMaxFeatures)
    /\ watch' = [watch EXCEPT !.inflight = watch.inflight - 1]
    /\ UNCHANGED <<outcome, emb, chunker>>

\* _do_reindex: index_project raises; "except Exception: pass"
ReindexRaises ==
    /\ watch.inflight > 0
    /\ watch' = [watch EXCEPT !.inflight = watch.inflight - 1,
                            !.failed = IF watch.failed = "no" THEN "raised" ELSE watch.failed]
    /\ UNCHANGED <<fs, chunks, memories, meta, file_meta, last, dbs, outcome, emb, chunker>>

\* watch_project: the observer ends; finally: timer.cancel()
StopWatch ==
    /\ watch.running
    /\ watch' = [NoWatch EXCEPT !.waiting = timer_cancel(watch.waiting),
                                !.inflight = watch.inflight]
    /\ UNCHANGED <<fs, chunks, memories, meta, file_meta, last, dbs, outcome, emb, chunker>>

-----------------------------------------------------------------------------
(* The embedder state as JSON text *)

RECURSIVE Digits(_)
\* the decimal digits json.dumps writes for a non-negative int
Digits(n) == IF n < 10 THEN <<n>> ELSE Append(Digits(n \div 10), n % 10)

RECURSIVE ParseDigits(_)
\* the int json.loads reads from decimal digits
ParseDigits(ds) ==
    IF Len(ds) = 0 THEN 0
    ELSE ParseDigits(SubSeq(ds, 1, Len(ds) - 1)) * 10 + ds[Len(ds)]

\* float.__repr__ of a value of idf.tolist(): the digits before and after the
\* point, for a value in thousandths
FloatRepr(milli) ==
    [int |-> Digits(milli \div 1000),
     frac |-> <<(milli \div 100) % 10, (milli \div 10) % 10, milli % 10>>]

\* the float json.loads reads, in thousandths
ParseFloat(r) == ParseDigits(r.int) * 1000 + ParseDigits(r.frac)

\* the idf values a fit can compute, as the pairs <<n_docs, df>>
IdfPairs == {<<n, d>> \in (1..7) \X (1..7) : d <= n}

\* np.array(state["idf"], dtype=np.float32) for one value: the float32 of
\* that value, which the model names by the first pair that computes it
Float32(milli) ==
    CHOOSE p \in IdfPairs :
        /\ IdfMilli(p[1], p[2]) = milli
        /\ \A q \in IdfPairs : IdfMilli(q[1], q[2]) = milli =>
                \/ p[1] < q[1]
                \/ p[1] = q[1] /\ p[2] <= q[2]

\* json.dumps(embedder.save_state()): max_features as an int, the vocabulary
\* dict as members "token": idx, idf as a list of floats
json_dumps(state) ==
    [max_features |-> Digits(state.max_features),
     vocabulary |-> [i \in DOMAIN state.vocabulary |->
                        [key |-> state.vocabulary[i], value |-> Digits(i - 1)]],
     idf |-> [i \in DOMAIN state.idf |->
                        FloatRepr(IdfMilli(state.idf[i][1], state.idf[i][2]))]]

\* json.loads(state_json), read as from_state reads it: a token has the slot
\* its member gives, the idf list becomes a float32 array
json_loads(text) ==
    [max_features |-> ParseDigits(text.max_features),
     vocabulary |-> [i \in 1..Len(text.vocabulary) |->
                        (CHOOSE m \in Range(text.vocabulary) :
                            ParseDigits(m.value) = i - 1).key],
     idf |-> [i \in DOMAIN text.idf |-> Float32(ParseFloat(text.idf[i]))]]

\* the texts a caller fits on and embeds
EmbedTexts == {T1, T2, <<"foo", "bar">>}

\* the corpora a caller fits on
Corpora == UNION {[1..n -> EmbedTexts] : n \in 1..MaxDocs}

\* embedder.fit(corpus)
EmbFit ==
    /\ emb.op = "new"
    /\ \E e \in Fit(emb.e, emb.corpus) : emb' = [op |-> "fit", e |-> e]
    /\ UNCHANGED <<fs, chunks, memories, meta, file_meta, last, dbs, outcome, watch, chunker>>

\* state = embedder.save_state()
EmbSaveState ==
    /\ emb.op = "fit"
    /\ emb' = [op |-> "save_state", e |-> emb.e, state |-> save_state(emb.e)]
    /\ UNCHANGED <<fs, chunks, memories, meta, file_meta, last, dbs, outcome, watch, chunker>>

\* TfidfEmbedder.from_state(state)
EmbFromState ==
    /\ emb.op = "save_state"
    /\ emb' = [op |-> "from_state", e |-> emb.e, json |-> FALSE,
               restored |-> from_state(emb.state)]
    /\ UNCHANGED <<fs, chunks, memories, meta, file_meta, last, dbs, outcome, watch, chunker>>

\* store.set_meta("tfidf_state", json.dumps(state))
EmbDumps ==
    /\ emb.op = "save_state"
    /\ emb' = [op |-> "dumps", e |-> emb.e, text |-> json_dumps(emb.state)]
    /\ UNCHANGED <<fs, chunks, memories, meta, file_meta, last, dbs, outcome, watch, chunker>>

\* TfidfEmbedder.from_state(json.loads(state_json))
EmbFromJson ==
    /\ emb.op = "dumps"
    /\ emb' = [op |-> "from_state", e |-> emb.e, json |-> TRUE,
               restored |-> from_state(json_loads(emb.text))]
    /\ UNCHANGED <<fs, chunks, memories, meta, file_meta, last, dbs, outcome, watch, chunker>>

\* embed_text(text) of the original and of the restored embedder
EmbEmbed ==
    \E text \in EmbedTexts :
        /\ emb.op = "from_state"
        /\ emb' = [op |-> "embed", e |-> emb.e, json |-> emb.json,
                   restored |-> emb.restored, text |-> text,
                   v |-> embed_text(emb.e, text),
                   vr |-> embed_text(emb.restored, text)]
        /\ UNCHANGED <<fs, chunks, memories, meta, file_meta, last, dbs, outcome, watch, chunker>>

-----------------------------------------------------------------------------
(* Sliding-window chunking *)

\* the characters of a text: a letter and a newline
Chars == {"a", "\n"}

\* str.isspace
IsSpace(c) == c = "\n"

\* content[a:b] of Python, negative offsets counted from the end
Slice(seq, a, b) ==
    LET n == Len(seq)
        lo == IF a < 0 THEN (IF a + n < 0 THEN 0 ELSE a + n) ELSE Min(a, n)
        hi == IF b < 0 THEN (IF b + n < 0 THEN 0 ELSE b + n) ELSE Min(b, n)
    IN SubSeq(seq, lo + 1, hi)

\* str.strip
Strip(text) ==
    LET ink == {i \in DOMAIN text : ~IsSpace(text[i])}
    IN IF ink = {} THEN << >>
       ELSE SubSeq(text, CHOOSE i \in ink : \A j \in ink : i <= j,
                         CHOOSE i \in ink : \A j \in ink : j <= i)

\* text.count("\n")
CountNewlines(text) == Cardinality({i \in DOMAIN text : text[i] = "\n"})

\* a step of the window that ignores the overlap
next_start_no_overlap(end, overlap_chars) == end

\* current_start = end - overlap_chars
next_start(end, overlap_chars) == end - overlap_chars

\* the texts a caller chunks
WindowTexts == UNION {[1..n -> Chars] : n \in 0..MaxText}

\* _chunk_window up to its loop
window_enter(content, max_chunk_tokens, overlap_tokens) ==
    [op |-> "window", content |-> content,
     chars_per_chunk |-> max_chunk_tokens * 4,
     overlap_chars |-> overlap_tokens * 4,
     current_start |-> 0, total_chars |-> Len(content),
     chunks |-> << >>, windows |-> << >>, returned |-> FALSE]

\* one test of the loop condition of _chunk_window and, when it holds, one
\* pass through the loop body
window_iter(w) ==
    IF ~(w.current_start < w.total_chars)
    THEN [w EXCEPT !.returned = TRUE]
    ELSE LET end == Min(w.current_start + w.chars_per_chunk, w.total_chars)
             chunk_text == Slice(w.content, w.current_start, end)
             start_line == CountNewlines(Slice(w.content, 0, w.current_start)) + 1
             end_line == CountNewlines(Slice(w.content, 0, end)) + 1
             emitted == IF Strip(chunk_text) # << >>
                        THEN Append(w.chunks,
                                 [content |-> Strip(chunk_text),
                                  start_line |-> start_line, end_line |-> end_line])
                        ELSE w.chunks
         IN [w EXCEPT
                 !.chunks = emitted,
                 !.windows = Append(@, <<w.current_start, end>>),
                 !.returned = end >= w.total_chars,
                 !.current_start = IF end >= w.total_chars THEN @
                                   ELSE next_start(end, w.overlap_chars)]

RECURSIVE WindowLoop(_)
\* the loop of _chunk_window to its end, or as far as MaxIter windows
WindowLoop(w) ==
    IF w.returned \/ Len(w.windows) >= MaxIter THEN w ELSE WindowLoop(window_iter(w))

\* _chunk_window(content, config) as one call
chunk_window(content, max_chunk_tokens, overlap_tokens) ==
    WindowLoop(window_enter(content, max_chunk_tokens, overlap_tokens))

\* _chunk_window(content, config) is entered: the lines up to the loop
ChunkWindowCall ==
    /\ chunker.op = "none"
    /\ \E content \in WindowTexts, max_chunk_tokens \in 0..MaxTokens,
          overlap_tokens \in 0..MaxTokens :
          chunker' = window_enter(content, max_chunk_tokens, overlap_tokens)
    /\ UNCHANGED <<fs, chunks, memories, meta, file_meta, last, dbs, outcome, watch, emb>>

\* one iteration of the loop of _chunk_window
ChunkWindowIter ==
    /\ chunker.op = "window"
    /\ ~chunker.returned
    /\ Len(chunker.windows) < MaxIter
    /\ chunker' = window_iter(chunker)
    /\ UNCHANGED <<fs, chunks, memories, meta, file_meta, last, dbs, outcome, watch, emb>>

-----------------------------------------------------------------------------
(* The Python chunker *)

RECURSIVE Concat(_)
\* "".join of a sequence of sequences
Concat(ss) == IF ss = << >> THEN << >> ELSE Head(ss) \o Concat(Tail(ss))

\* the top-level items of a Python file, each as the kinds of its lines: a
\* statement, a blank line, a comment, a function of two lines, a class
\* without methods, a class with a class variable and a method of two lines,
\* a class whose method follows the class line
PyItems ==
    {<<"stmt">>, <<"blank">>, <<"comment">>, <<"def", "body">>, <<"class", "cvar">>,
     <<"class", "cvar", "method", "mbody">>, <<"class", "method">>}

\* the files a caller chunks, as the kinds of their lines
PyFiles == UNION {{Concat(f) : f \in [1..n -> PyItems]} : n \in 0..MaxItems}

\* the characters of a file of such lines
TextOf(lines) ==
    Concat([i \in DOMAIN lines |-> IF lines[i] = "blank" THEN <<"\n">> ELSE <<"a", "\n">>])

\* node.end_lineno of the node that starts at line i and goes on over the
\* lines of the kinds conts
EndLineno(lines, i, conts) ==
    CHOOSE j \in i..Len(lines) :
        /\ \A k \in (i + 1)..j : lines[k] \in conts
        /\ j = Len(lines) \/ lines[j + 1] \notin conts

\* lines[a - 1 : b] as the numbers of the lines
LinesFrom(a, b) == [k \in 1..(b - a + 1) |-> a + k - 1]

\* a ChunkResult of the AST chunker; lines are the numbers of the source lines
\* its content is joined from
AstChunk(chunk_type, start_line, end_line, from) ==
    [chunk_type |-> chunk_type, start_line |-> start_line, end_line |-> end_line,
     lines |-> from]

\* the loop body of _chunk_python for the top-level node at line i
NodeChunks(lines, i, max_chunk_tokens) ==
    IF lines[i] = "def"
    THEN LET end == EndLineno(lines, i, {"body"})
         IN <<AstChunk("function", i, end, LinesFrom(i, end))>>
    ELSE IF lines[i] = "class"
    THEN LET start == i
             end == EndLineno(lines, i, {"cvar", "method", "mbody"})
             methods == SortedSeq({m \in start..end : lines[m] = "method"})
             est_tokens == (end - start + 1) * 4
         IN IF methods # << >> /\ est_tokens > max_chunk_tokens * 4
            THEN [k \in DOMAIN methods |->
                    LET m_end == EndLineno(lines, methods[k], {"mbody"})
                    IN AstChunk("method", methods[k], m_end, LinesFrom(methods[k], m_end))]
                 \o (IF methods[1] > start + 1
                     THEN <<AstChunk("class", start, methods[1] - 1,
                                     LinesFrom(start, methods[1] - 1))>>
                     ELSE << >>)
            ELSE <<AstChunk("class", start, end, LinesFrom(start, end))>>
    ELSE << >>

\* covered_lines after the loop over the top-level nodes
CoveredLines(lines) ==
    UNION {IF lines[i] = "def" THEN i..EndLineno(lines, i, {"body"})
           ELSE IF lines[i] = "class" THEN i..EndLineno(lines, i, {"cvar", "method", "mbody"})
           ELSE {} : i \in DOMAIN lines}

RECURSIVE AstChunks(_, _, _)
\* for node in ast.iter_child_nodes(tree), from line i on
AstChunks(lines, i, max_chunk_tokens) ==
    IF i > Len(lines) THEN << >>
    ELSE NodeChunks(lines, i, max_chunk_tokens) \o AstChunks(lines, i + 1, max_chunk_tokens)

\* the Module fragment of the lines no function or class covers
ModuleChunk(lines) ==
    LET module_lines == SortedSeq({i \in DOMAIN lines :
                            i \notin CoveredLines(lines) /\ lines[i] \notin {"blank", "comment"}})
    IN IF module_lines = << >> THEN << >>
       ELSE <<AstChunk("module", module_lines[1],
                       module_lines[1] + Len(module_lines) - 1, module_lines)>>

\* _chunk_python(content, config); parses: ast.parse raises no SyntaxError
chunk_python(lines, parses, max_chunk_tokens, overlap_tokens) ==
    LET results == IF parses
                   THEN AstChunks(lines, 1, max_chunk_tokens) \o ModuleChunk(lines)
                   ELSE << >>
    IN [op |-> "chunk_python", lines |-> lines, parses |-> parses,
        chunks |-> results,
        fallback |-> IF results = << >>
                     THEN chunk_window(TextOf(lines), max_chunk_tokens, overlap_tokens)
                     ELSE NoChunker]

\* _chunk_python(content, config) of a caller
ChunkPython ==
    /\ chunker.op = "none"
    /\ \E lines \in PyFiles, parses \in BOOLEAN, max_chunk_tokens \in 1..MaxTokens :
          chunker' = chunk_python(lines, parses, max_chunk_tokens, 0)
    /\ UNCHANGED <<fs, chunks, memories, meta, file_meta, last, dbs, outcome, watch, emb>>

-----------------------------------------------------------------------------
(* chunk_file and the chunkers of the other formats *)

\* the files of the other formats, as the kinds of their lines: "mark" is a
\* header line of Markdown or a line with a top-level key of YAML
MarkedFiles == UNION {[1..n -> {"mark", "text", "blank"}] : n \in 0..MaxItems}

\* the sections from each marked line to the line before the next one, the
\* last to the end of content.split("\n")
Sections(lines, chunk_type) ==
    LET positions == SortedSeq({i \in DOMAIN lines : lines[i] = "mark"})
    IN [k \in DOMAIN positions |->
          LET end_line == IF k < Len(positions) THEN positions[k + 1] - 1
                          ELSE Len(lines) + 1
          IN AstChunk(chunk_type, positions[k], end_line,
                      LinesFrom(positions[k], Min(end_line, Len(lines))))]

\* _chunk_markdown(content, config)
chunk_markdown(lines, max_chunk_tokens, overlap_tokens) ==
    LET positions == SortedSeq({i \in DOMAIN lines : lines[i] = "mark"})
        preamble == IF positions # << >> /\ positions[1] > 1
                       /\ \E i \in 1..(positions[1] - 1) : lines[i] # "blank"
                    THEN <<AstChunk("markdown_section", 1, positions[1] - 1,
                                    LinesFrom(1, positions[1] - 1))>>
                    ELSE << >>
    IN IF positions = << >>
       THEN [raises |-> "none", chunks |-> << >>,
             fallback |-> chunk_window(TextOf(lines), max_chunk_tokens, overlap_tokens)]
       ELSE [raises |-> "none", chunks |-> preamble \o Sections(lines, "markdown_section"),
             fallback |-> NoChunker]

\* what yaml.safe_load(content) can do: return a dict, return another value,
\* raise a YAMLError, raise another exception (a ValueError of a date such
\* as 2020-02-30)
YamlOutcomes == {"dict", "other", "YAMLError", "ValueError"}

\* _chunk_yaml(content, config)
chunk_yaml(lines, loaded, max_chunk_tokens, overlap_tokens) ==
    IF loaded = "ValueError"
    THEN [raises |-> loaded, chunks |-> << >>, fallback |-> NoChunker]
    ELSE IF loaded = "dict" /\ Sections(lines, "yaml_key") # << >>
    THEN [raises |-> "none", chunks |-> Sections(lines, "yaml_key"), fallback |-> NoChunker]
    ELSE [raises |-> "none", chunks |-> << >>,
          fallback |-> chunk_window(TextOf(lines), max_chunk_tokens, overlap_tokens)]

\* what json.loads(content) can do: return a dict of 0, 1 or 2 keys, return
\* another value, raise a JSONDecodeError, raise a RecursionError (a document
\* nested deeper than the recursion limit)
JsonOutcomes == {"dict0", "dict1", "dict2", "other", "JSONDecodeError", "RecursionError"}

\* _chunk_json(content, config)
chunk_json(lines, loaded, max_chunk_tokens, overlap_tokens) ==
    IF loaded = "RecursionError"
    THEN [raises |-> loaded, chunks |-> << >>, fallback |-> NoChunker]
    ELSE IF loaded \in {"dict1", "dict2"}
    THEN [raises |-> "none",
          chunks |-> [k \in 1..(IF loaded = "dict1" THEN 1 ELSE 2) |->
                        AstChunk("json_key", 1, 1, << >>)],
          fallback |-> NoChunker]
    ELSE [raises |-> "none", chunks |-> << >>,
          fallback |-> chunk_window(TextOf(lines), max_chunk_tokens, overlap_tokens)]

\* what ast.parse(content) can do: return a tree, raise a SyntaxError, raise
\* another exception (a RecursionError or MemoryError of a deeply nested
\* expression)
AstOutcomes == {"tree", "SyntaxError", "RecursionError"}

\* the files a caller hands to chunk_file: suffix, lines, and what the parser
\* of the format does with the content
ChunkedFiles ==
    {[ext |-> ".py", lines |-> l, parsed |-> o] : l \in PyFiles, o \in AstOutcomes}
    \cup {[ext |-> ".md", lines |-> l, parsed |-> "none"] : l \in MarkedFiles}
    \cup {[ext |-> ".yaml", lines |-> l, parsed |-> o] : l \in MarkedFiles, o \in YamlOutcomes}
    \cup {[ext |-> ".json", lines |-> l, parsed |-> o] : l \in MarkedFiles, o \in JsonOutcomes}
    \cup {[ext |-> ".txt", lines |-> l, parsed |-> "none"] : l \in MarkedFiles}

\* the dispatch of chunk_file on the suffix
dispatch(file, max_chunk_tokens, overlap_tokens) ==
    IF file.ext = ".py"
    THEN IF file.parsed = "RecursionError"
         THEN [raises |-> file.parsed, chunks |-> << >>, fallback |-> NoChunker]
         ELSE LET r == chunk_python(file.lines, file.parsed = "tree",
                                    max_chunk_tokens, overlap_tokens)
              IN [raises |-> "none", chunks |-> r.chunks, fallback |-> r.fallback]
    ELSE IF file.ext = ".md"
    THEN chunk_markdown(file.lines, max_chunk_tokens, overlap_tokens)
    ELSE IF file.ext \in {".yaml", ".yml"}
    THEN chunk_yaml(file.lines, file.parsed, max_chunk_tokens, overlap_tokens)
    ELSE IF file.ext = ".json"
    THEN chunk_json(file.lines, file.parsed, max_chunk_tokens, overlap_tokens)
    ELSE [raises |-> "none", chunks |-> << >>,
          fallback |-> chunk_window(TextOf(file.lines), max_chunk_tokens, overlap_tokens)]

\* chunk_file(file_path, config): the fragments it returns are those of the
\* format chunker or, when there are none, those of the window fallback
chunk_file_of(file, readable, max_chunk_tokens, overlap_tokens) ==
    IF ~readable
    THEN [op |-> "chunk_file", file |-> file, readable |-> readable,
          raises |-> "ChunkError", chunks |-> << >>, fallback |-> NoChunker]
    ELSE IF Strip(TextOf(file.lines)) = << >>
    THEN [op |-> "chunk_file", file |-> file, readable |-> readable,
          raises |-> "none", chunks |-> << >>, fallback |-> NoChunker]
    ELSE LET r == dispatch(file, max_chunk_tokens, overlap_tokens)
         IN [op |-> "chunk_file", file |-> file, readable |-> readable,
             raises |-> r.raises, chunks |-> r.chunks, fallback |-> r.fallback]

\* chunk_file(file_path) with the default configuration
ChunkFile ==
    /\ chunker.op = "none"
    /\ \E file \in ChunkedFiles, readable \in BOOLEAN :
          chunker' = chunk_file_of(file, readable, DefaultMaxChunkTokens,
                                   DefaultOverlapTokens)
    /\ UNCHANGED <<fs, chunks, memories, meta, file_meta, last, dbs, outcome, watch, emb>>

-----------------------------------------------------------------------------
(* The context block *)

\* len(r.content) of the results a search hands over
ContentLengths == {0, 3, 4, 40}

\* the ranked results of a search, each with the length of its content
RankedResults ==
    UNION {[1..n -> [len : ContentLengths]] : n \in 0..MaxResults}

\* a charge that leaves out the 20 tokens of the entry
entry_tokens_content_only(r) == r.len \div 4

\* entry_tokens = len(r.content) // 4 + 20
entry_tokens(r) == r.len \div 4 + 20

RECURSIVE ContextLoop(_, _, _, _)
\* the loop of build_context from result i on: the sections and the total
\* it ends with
ContextLoop(results, i, run, max_tokens) ==
    IF i > Len(results) THEN run
    ELSE IF run.total_tokens + entry_tokens(results[i]) > max_tokens THEN run
    ELSE ContextLoop(results, i + 1,
            [sections |-> Append(run.sections, results[i]),
             total_tokens |-> run.total_tokens + entry_tokens(results[i])],
            max_tokens)

\* build_context over the results of its search; header is the count the
\* header line gives, -1 for "No relevant context found"
build_context(results, max_tokens) ==
    IF results = << >>
    THEN [op |-> "build_context", results |-> results, max_tokens |-> max_tokens,
          sections |-> << >>, total_tokens |-> 0, header |-> -1]
    ELSE LET run == ContextLoop(results, 1, [sections |-> << >>, total_tokens |-> 0],
                                max_tokens)
         IN [op |-> "build_context", results |-> results, max_tokens |-> max_tokens,
             sections |-> run.sections, total_tokens |-> run.total_tokens,
             header |-> Len(run.sections)]

\* build_context(query_text, project_path, max_tokens, top_k)
BuildContext ==
    /\ chunker.op = "none"
    /\ \E results \in RankedResults, max_tokens \in (0 - 1)..MaxBudget :
          chunker' = build_context(results, max_tokens)
    /\ UNCHANGED <<fs, chunks, memories, meta, file_meta, last, dbs, outcome, watch, emb>>

-----------------------------------------------------------------------------
(* Callers of add_chunks and add_memory with ids of their own *)

\* an empty list as embedding
EmptyEmbedding == [dim |-> 0, src |-> << >>, w |-> << >>]

\* Chunk(id=..., content=..., source_file=..., embedding=...)
ChunkRecords ==
    {[id |-> i, content |-> c, source_file |-> 1, embedding |-> e] :
        i \in 1..MaxIds, c \in {T1, T2},
        e \in {EmptyEmbedding, embed_text(SentenceTransformerEmbedder, T1)}}

\* Memory(id=..., content=..., memory_type=..., tags=..., embedding=...)
MemoryRecords ==
    {[id |-> i, content |-> c, memory_type |-> "note", tags |-> << >>,
      embedding |-> EmptyEmbedding] : i \in 1..MaxIds, c \in {T1, T3}}

\* store.add_chunks(batch)
AddChunks ==
    \E batch \in {<<a>> : a \in ChunkRecords} \cup (ChunkRecords \X ChunkRecords) :
        /\ chunks' = add_chunks(chunks, batch)
        /\ dbs' = MembootStore(dbs, "project")
        /\ last' = NoLast
        /\ outcome' = [NoCall EXCEPT !.op = "add_chunks", !.ret = "ok",
                                     !.args = batch, !.before = chunks]
        /\ UNCHANGED <<fs, memories, meta, file_meta, watch, emb, chunker>>

\* store.add_memory(memory)
AddMemory ==
    \E memory \in MemoryRecords :
        /\ memories' = add_memory(memories, memory)
        /\ dbs' = MembootStore(dbs, "project")
        /\ last' = NoLast
        /\ outcome' = [NoCall EXCEPT !.op = "add_memory", !.ret = "ok",
                                     !.args = <<memory>>, !.before = memories]
        /\ UNCHANGED <<fs, chunks, meta, file_meta, watch, emb, chunker>>

-----------------------------------------------------------------------------

Init ==
    /\ fs = [p \in AllPaths |->
                IF p = OtherPath THEN [present |-> TRUE, mtime |-> 1, content |-> <<T1>>]
                ELSE NoFile]
    /\ chunks = {}
    /\ memories = {}
    /\ meta = << >>
    /\ file_meta = << >>
    /\ last = NoLast
    /\ dbs = {}
    /\ outcome = NoCall
    /\ watch = NoWatch
    /\ emb = NoEmb
    /\ chunker = NoChunker

\* the indexer with its default configuration over a changing project tree
Next ==
    \/ IndexProject
    \/ WriteFile
    \/ RemoveFile

Spec == Init /\ [][Next]_vars

\* every writer of the store: index runs under any configuration, remember
\* and ingest, over a project of one indexable file
NextStore ==
    \/ IndexProjectWith
    \/ Remember
    \/ IngestFile
    \/ WriteOnlyFile
    \/ RemoveFile

SpecStore == Init /\ [][NextStore]_vars

\* search, the operations of the store and failing calls, next to the
\* writers of the store, over a project of one indexable file
NextQuery ==
    \/ IndexProjectTfidf
    \/ IndexProjectRaises
    \/ Remember
    \/ IngestFileNamed
    \/ CreateOnlyFile
    \/ Search
    \/ StoreClearChunks
    \/ StoreReset
    \/ DeleteMemory

SpecQuery == Init /\ [][NextQuery]_vars

\* index runs that can fail partway, over a tree of two files
NextFailing ==
    \/ IndexProjectReading
    \/ WriteFile
    \/ RemoveFile

SpecFailing == Init /\ [][NextFailing]_vars

\* remember with arguments of the caller, before and after index runs
NextRemember ==
    \/ IndexProjectWith
    \/ RememberWith
    \/ CreateOnlyFile
    \/ DeleteMemory

SpecRemember == Init /\ [][NextRemember]_vars

\* an embedder of a caller: TfidfEmbedder(max_features) and a corpus to fit
InitEmbedder ==
    /\ fs = [p \in AllPaths |-> NoFile]
    /\ chunks = {} /\ memories = {}
    /\ meta = << >> /\ file_meta = << >>
    /\ last = NoLast /\ dbs = {}
    /\ outcome = NoCall /\ watch = NoWatch
    /\ chunker = NoChunker
    /\ emb \in {[op |-> "new", e |-> TfidfEmbedder(max_features), corpus |-> corpus] :
                    max_features \in 1..MaxFeat, corpus \in Corpora}

NextEmbedder ==
    EmbFit \/ EmbSaveState \/ EmbFromState \/ EmbDumps \/ EmbFromJson \/ EmbEmbed

SpecEmbedder == InitEmbedder /\ [][NextEmbedder]_vars

\* callers of chunk_file with files of their own
NextChunkFile == ChunkFile

SpecChunkFile == Init /\ [][NextChunkFile]_vars

\* callers of the Python chunker with files of their own
NextPython == ChunkPython

SpecPython == Init /\ [][NextPython]_vars

\* callers of build_context with search results and budgets of their own
NextContext == BuildContext

SpecContext == Init /\ [][NextContext]_vars

\* callers of the sliding window with texts and configurations of their own
NextWindow == ChunkWindowCall \/ ChunkWindowIter

SpecWindow == Init /\ [][NextWindow]_vars

\* callers of the store that add records under ids of their own
NextUpsert == AddChunks \/ AddMemory \/ StoreClearChunks

SpecUpsert == Init /\ [][NextUpsert]_vars

\* the watcher over a project of one indexable file
NextWatch ==
    \/ StartWatch
    \/ FileWritten
    \/ FileDeleted
    \/ IrrelevantEvent
    \/ Tick
    \/ TimerFires
    \/ ReindexReturns
    \/ ReindexRaises
    \/ StopWatch

SpecWatch == Init /\ [][NextWatch]_vars

\* the same where time passes, timer threads run and index runs end
SpecWatchLive ==
    /\ Init /\ [][NextWatch]_vars
    /\ WF_vars(Tick) /\ WF_vars(TimerFires)
    /\ WF_vars(ReindexRaises \/ ReindexReturns)

-----------------------------------------------------------------------------
(* Properties of index_project.  `last` is reset by every change of the     *)
(* project tree, so last.op = "index" holds exactly in the states an        *)
(* index_project call returned in, with fs the tree that call ran on; in a  *)
(* step with last'.op = "index" the unprimed variables are the store before *)
(* the call and the primed ones the store when it returns.                  *)

Discovered == Range(discover_files)

IndexStep == last'.op = "index" /\ vars' # vars

\* the fragments a run added: those carrying the ids it drew
Produced(cs, l) == {c \in cs : c.id \in l.new_ids}

\* the texts of the fragments a run added, in the order it chunked them
ProducedTexts(cs, l) ==
    LET ids == SortedSeq(l.new_ids)
    IN [i \in DOMAIN ids |-> (CHOOSE c \in cs : c.id = ids[i]).content]

\* a count the summary reports under `key`; -1 when the summary carries none
Reported(i, key) == IF "metadata" \in DOMAIN i THEN i["metadata"][key] ELSE -1

\* C1: after every successful index_project call the paths recorded in
\* file_meta are exactly the files discover_files returned at that call
C1_FileMetaIsDiscovered ==
    last.op = "index" => DOMAIN file_meta = Discovered

\* C2: a file indexed earlier and absent at an unforced run has, after the run,
\* no fragment and no file_meta record, is counted by deleted_files and, when
\* it had a fragment and the run added none, the fragment count has dropped
C2_DeletedFilePurged ==
    [][(IndexStep /\ ~last'.force) =>
        \A p \in DOMAIN file_meta : ~fs[p].present =>
            /\ ChunksOf(chunks', p) = {}
            /\ p \notin DOMAIN file_meta'
            /\ Reported(last'.info, "deleted_files") =
                  Cardinality({q \in DOMAIN file_meta : ~fs[q].present})
            /\ (ChunksOf(chunks, p) # {} /\ last'.new_ids = {})
                  => Cardinality(chunks') < Cardinality(chunks)]_vars

\* C3: an unforced run directly after an unforced run, the tree unchanged in
\* between, reports new_chunks = 0 and changed_files = 0 and leaves the stored
\* fragments (ids, contents, embeddings) as they were
C3_SecondRunIsNoOp ==
    [][(last.op = "index" /\ ~last.force /\ last'.op = "index" /\ ~last'.force) =>
        /\ Reported(last'.info, "new_chunks") = 0
        /\ Reported(last'.info, "changed_files") = 0
        /\ chunks' = chunks]_vars

\* the indexed files whose (mtime, size) differs from the stored record
Modified == {p \in DOMAIN file_meta \cap Discovered :
                \/ fs[p].mtime # file_meta[p].mtime
                \/ StSize(fs[p]) # file_meta[p].size}

\* C4: an unforced run that finds the indexed files M modified deletes every
\* fragment of a file in M, inserts fragments with new ids for exactly the files
\* in M and the new files, and keeps every fragment of every unchanged file
C4_ModifiedFilesReindexed ==
    [][(IndexStep /\ ~last'.force /\ Modified # {}) =>
        LET M == Modified
            N == Discovered \ DOMAIN file_meta
            U == (DOMAIN file_meta \cap Discovered) \ M
        IN /\ \A c \in chunks : c.source_file \in M =>
                  c.id \notin Ids(chunks')
           /\ \A c \in chunks' \ chunks :
                  c.source_file \in M \cup N /\ c.id \notin Ids(chunks)
           /\ \A p \in M \cup N :
                  Cardinality(ChunksOf(chunks', p)) = Len(chunk_file(p))
           /\ \A c \in chunks : c.source_file \in U => c \in chunks']_vars

C4_Witness ==
    /\ last.op = "index" /\ ~last.force
    /\ last.changed # << >> /\ last.unchanged # << >>
    /\ \E c \in chunks : c.source_file \in Range(last.changed) /\ c.id \in last.new_ids
    /\ \E c \in chunks : c.source_file \in Range(last.unchanged)

\* the TfidfEmbedder states a fit of a run's fragments can persist
FitStatesOfRun(m, cs, l) ==
    {save_state(e) : e \in Fit(TfidfEmbedder(IntOf(m["embedding_dim"])), ProducedTexts(cs, l))}

\* C5: a run with force=True, or with force=False while file_meta is empty,
\* treats every discovered file as new and clears what the store held, so that
\* the stored fragments are exactly the fragments the run produced
C5_FullRunReplacesFragments ==
    [][(IndexStep /\ (last'.force \/ DOMAIN file_meta = {})) =>
        /\ Range(last'.new) = Discovered
        /\ chunks' = Produced(chunks', last')
        /\ last'.new_ids \cap Ids(chunks) = {}]_vars

\* C5 as amended: such a run treats every discovered file as new; with
\* force=True the stored fragments and file metadata are afterwards exactly
\* those of this run; with force=False and file_meta empty the fragments the
\* store already held are kept and those of this run are added
C5_ForcedRunReplacesFragments ==
    [][IndexStep =>
        /\ (last'.force \/ DOMAIN file_meta = {}) =>
              /\ Range(last'.new) = Discovered
              /\ last'.unchanged = << >> /\ last'.changed = << >>
              /\ last'.new_ids \cap Ids(chunks) = {}
        /\ last'.force =>
              /\ chunks' = Produced(chunks', last')
              /\ DOMAIN file_meta' = Discovered
        /\ (~last'.force /\ DOMAIN file_meta = {}) =>
              chunks' = chunks \cup Produced(chunks', last')]_vars

C5_Witness ==
    /\ last.op = "index" /\ ~last.force /\ last.full
    /\ last.new_ids # {}
    /\ \E c \in chunks : c.id \notin last.new_ids

\* C6: an incremental run (force=False, file_meta non-empty) leaves the
\* tfidf_state metadata key, present or absent, as it was
C6_IncrementalKeepsEmbedderState ==
    [][(IndexStep /\ ~last'.force /\ DOMAIN file_meta # {}) =>
        /\ HasMeta(meta', "tfidf_state") <=> HasMeta(meta, "tfidf_state")
        /\ HasMeta(meta, "tfidf_state") => meta'["tfidf_state"] = meta["tfidf_state"]]_vars

\* C6 as amended: an incremental run leaves a persisted tfidf_state as it was;
\* when none is persisted, the run writes one exactly if it produces a fragment
\* under the tfidf backend, fitted on the fragments of this run
C6_IncrementalKeepsPersistedState ==
    [][(IndexStep /\ ~last'.force /\ DOMAIN file_meta # {}) =>
        IF HasMeta(meta, "tfidf_state")
        THEN /\ HasMeta(meta', "tfidf_state")
             /\ meta'["tfidf_state"] = meta["tfidf_state"]
        ELSE /\ HasMeta(meta', "tfidf_state") <=>
                  (last'.new_ids # {} /\ last'.info.embedding_backend = "tfidf")
             /\ HasMeta(meta', "tfidf_state") =>
                  meta'["tfidf_state"] \in FitStatesOfRun(meta', chunks', last')]_vars

C6_Witness ==
    /\ last.op = "index" /\ ~last.force /\ ~last.full
    /\ last.ret = "processed" /\ last.embed = "restored"
    /\ last.new_ids # {}
    /\ HasMeta(meta, "tfidf_state")

\* C7: every full run (force=True, or no prior file metadata) that produces a
\* fragment fits a new TF-IDF embedder on exactly the texts of the fragments of
\* that run and persists its state in place of any earlier one
C7_FullRunFitsOnItsFragments ==
    [][(IndexStep /\ (last'.force \/ DOMAIN file_meta = {}) /\ last'.new_ids # {}) =>
        /\ HasMeta(meta', "tfidf_state")
        /\ meta'["tfidf_state"] \in FitStatesOfRun(meta', chunks', last')]_vars

\* C8: every stored chunk and every stored memory that has an embedding has an
\* embedding of the length recorded as embedding_dim in the project metadata
C8_EmbeddingLengthIsRecordedDim ==
    HasMeta(meta, "embedding_dim") =>
        /\ \A c \in chunks : c.embedding # NoneEmbedding =>
              c.embedding.dim = IntOf(meta["embedding_dim"])
        /\ \A m \in memories : m.embedding # NoneEmbedding =>
              m.embedding.dim = IntOf(meta["embedding_dim"])

\* C9: the summary of every successful call carries the number of fragments and
\* of memories in the store when the call returns, on every return path
C9_SummaryCountsMatchStore ==
    last.op = "index" =>
        /\ last.info.chunk_count = Cardinality(chunks)
        /\ last.info.memory_count = Cardinality(memories)

\* C9 as amended: on the return paths "nothing to process" and "files
\* processed" the summary carries the store's fragment and memory counts; on
\* the path "no files discovered" it carries 0 and 0 whatever the store holds
C9_SummaryCountsByReturnPath ==
    last.op = "index" =>
        IF last.ret = "no_files"
        THEN last.info.chunk_count = 0 /\ last.info.memory_count = 0
        ELSE /\ last.info.chunk_count = Cardinality(chunks)
             /\ last.info.memory_count = Cardinality(memories)

C9_Witness ==
    /\ last.op = "index" /\ last.ret = "no_files"
    /\ memories # {}
    /\ last.info.memory_count = 0

\* C10: the summary exposes unchanged_files, changed_files, new_files,
\* deleted_files and new_chunks; on an incremental run they count the
\* discovered files whose (mtime, size) equals the record, those whose record
\* differs, those without a record, and the recorded paths not discovered; on a
\* first or forced run new_files counts the discovered files, the other three
\* are 0 and new_chunks is the number of fragments added
C10_SummaryCountsPartitionFiles ==
    [][IndexStep =>
        LET i == last'.info
            fm == IF last'.force THEN << >> ELSE file_meta
        IN /\ "metadata" \in DOMAIN i
           /\ Reported(i, "unchanged_files") =
                 Cardinality((DOMAIN fm \cap Discovered) \ Modified)
           /\ Reported(i, "changed_files") = Cardinality(DOMAIN fm \cap Modified)
           /\ Reported(i, "new_files") = Cardinality(Discovered \ DOMAIN fm)
           /\ Reported(i, "deleted_files") = Cardinality(DOMAIN fm \ Discovered)
           /\ Reported(i, "new_chunks") = Cardinality(chunks' \ chunks)
           /\ Reported(i, "unchanged_files") + Reported(i, "changed_files")
                 + Reported(i, "new_files") = Cardinality(Discovered)]_vars

-----------------------------------------------------------------------------
(* Properties of search and of the operations of the store.  `outcome` is   *)
(* reset by every other operation, so outcome.op = "search" holds exactly   *)
(* in the states a search returned or raised in, over the store as it is.   *)

\* C11: index_project on a root that does not exist or is no directory raises
\* IndexingError before a store is opened: no database file is created and no
\* fragment, memory, metadata or file-metadata record is created or changed
C11_NotADirectoryRaises ==
    [][outcome'.op = "index_project" =>
        /\ outcome'.ret = "IndexingError"
        /\ UNCHANGED <<chunks, memories, meta, file_meta, dbs>>]_vars

C11_Witness ==
    /\ outcome.op = "index_project" /\ outcome.ret = "IndexingError"
    /\ chunks # {} /\ memories # {}
    /\ dbs = {"project"}

\* C12: for every store content, query and top_k, search returns at most top_k
\* results (none for a top_k below 0) and the scores of the returned results
\* are non-increasing in list order
C12_SearchAtMostTopK ==
    (outcome.op = "search" /\ outcome.ret = "ok") =>
        /\ Len(outcome.results) <= (IF outcome.top_k > 0 THEN outcome.top_k ELSE 0)
        /\ \A i, j \in DOMAIN outcome.results :
              i < j => outcome.results[i].score >= outcome.results[j].score

\* the project has no EmbedderState under the default backend
NoStateUnderDefaultBackend ==
    /\ ~HasMeta(meta, "tfidf_state")
    /\ ~HasMeta(meta, "embedding_backend") \/ meta["embedding_backend"] = "tfidf"

\* C13: search raises QueryError when the project has no database and when the
\* database holds no EmbedderState under the default backend; it then returns
\* no result and leaves fragments, memories and metadata unchanged
C13_SearchWithoutIndexRaises ==
    [][(outcome'.op = "search" /\ ("project" \notin dbs \/ NoStateUnderDefaultBackend)) =>
        /\ outcome'.ret = "QueryError"
        /\ outcome'.results = << >>
        /\ UNCHANGED <<chunks, memories, meta, file_meta, dbs>>]_vars

C13_Witness ==
    /\ outcome.op = "search" /\ outcome.ret = "QueryError"
    /\ "project" \in dbs
    /\ memories # {}
    /\ NoStateUnderDefaultBackend

\* the vector of the query of the search that returned
QueryVec == embed_text(from_state(meta["tfidf_state"]), outcome.query)

\* the selected tuples are distinct candidates: stored records with an
\* embedding, memories only when they were asked for; no candidate left out
\* scores higher than a selected one; for a top_k of 0 or more,
\* min(top_k, number of candidates) are selected; each result is built from
\* its tuple
TopKOfMergedCandidates ==
    LET top == outcome.scored
        cs == {c \in chunks : c.embedding # NoneEmbedding}
        ms == IF outcome.include_memories
              THEN {m \in memories : m.embedding # NoneEmbedding} ELSE {}
        n == Cardinality(cs) + Cardinality(ms)
    IN /\ \A i \in DOMAIN top :
            /\ top[i].type \in {"chunk", "memory"}
            /\ top[i].type = "chunk" => \E c \in cs :
                 /\ c.id = top[i].id
                 /\ top[i].score = cosine_similarity(QueryVec, c.embedding)
                 /\ outcome.results[i].content = c.content
            /\ top[i].type = "memory" => \E m \in ms :
                 /\ m.id = top[i].id
                 /\ top[i].score = cosine_similarity(QueryVec, m.embedding)
                 /\ outcome.results[i].content = m.content
                 /\ outcome.results[i].source.prefix = "memory:"
            /\ outcome.results[i].score = top[i].score
       /\ \A i, j \in DOMAIN top : i # j => top[i].id # top[j].id
       /\ Len(outcome.results) = Len(top)
       /\ \A c \in cs : (\A i \in DOMAIN top : top[i].id # c.id) =>
             \A i \in DOMAIN top : cosine_similarity(QueryVec, c.embedding) <= top[i].score
       /\ \A m \in ms : (\A i \in DOMAIN top : top[i].id # m.id) =>
             \A i \in DOMAIN top : cosine_similarity(QueryVec, m.embedding) <= top[i].score
       /\ outcome.top_k >= 0 => Len(top) = Min(outcome.top_k, n)

\* C14: with include_memories=False search scores the stored fragments only
\* and returns no result whose source starts with "memory:"; with
\* include_memories=True every stored memory with an embedding is scored
\* together with every stored fragment with one, and the top_k are taken from
\* the merged candidates
C14_IncludeMemories ==
    (outcome.op = "search" /\ outcome.ret = "ok") =>
        /\ TopKOfMergedCandidates
        /\ ~outcome.include_memories =>
              \A i \in DOMAIN outcome.results : outcome.results[i].source.prefix # "memory:"

\* C14 as amended: with include_memories=False no result is built from a
\* memory, and the source of a result starts with "memory:" only when the
\* source_file of its fragment does; the rest as stated
C14_IncludeMemoriesByRecord ==
    (outcome.op = "search" /\ outcome.ret = "ok") =>
        /\ TopKOfMergedCandidates
        /\ ~outcome.include_memories =>
              \A i \in DOMAIN outcome.results :
                 /\ outcome.scored[i].type = "chunk"
                 /\ outcome.results[i].source.prefix = "memory:" =>
                       \E c \in chunks : /\ c.id = outcome.scored[i].id
                                         /\ c.source_file = MemoryNamedFile

C14_Witness ==
    /\ outcome.op = "search" /\ outcome.ret = "ok"
    /\ outcome.include_memories
    /\ \E i, j \in DOMAIN outcome.scored :
          /\ outcome.scored[i].type = "memory"
          /\ outcome.scored[j].type = "chunk"
          /\ outcome.scored[j].score > outcome.scored[i].score

-----------------------------------------------------------------------------
(* The watcher: claims C15 to C17 *)

\* C15: at most one index_project invocation started by the watcher is in
\* flight at any time, whatever the timing of the file events relative to the
\* debounce interval and to the duration of a run.
C15_OneRunInFlight == watch.inflight <= 1

\* C16: in a burst of events, each arriving before the timer of the previous
\* one has fired, an invocation starts only when the debounce interval has
\* passed since the last event, and it is the only one of the burst.
C16_BurstIsOneRun ==
    [][watch'.inflight > watch.inflight =>
            /\ watch.since = Debounce
            /\ watch'.runs = 1
            /\ watch'.waiting = << >>]_vars

\* a burst of several events has ended in its one invocation
C16_Witness ==
    /\ watch.running
    /\ watch.burst = 2
    /\ watch.runs = 1
    /\ watch.inflight = 1
    /\ ~watch.pending

\* C17: while the watcher keeps running, every relevant event is eventually
\* followed by an index_project invocation that starts after it.
C17_EventLeadsToReindex == watch.pending ~> ~watch.pending

\* C17, with the quiet period it needs: while the watcher keeps running,
\* every relevant event is eventually followed by an index_project
\* invocation that starts after it or by a later relevant event, also when
\* an earlier invocation has raised.
C17_EventLeadsToReindexOrEvent ==
    \A b \in BOOLEAN :
        (watch.pending /\ watch.evbit = b) ~> (~watch.pending \/ watch.evbit # b)

\* an invocation has started after an event that followed a failed invocation
C17_Witness ==
    /\ watch.running
    /\ watch.failed = "reindexed"
    /\ ~watch.pending
    /\ watch.inflight = 1
    /\ watch.waiting = << >>

-----------------------------------------------------------------------------
(* The bulk operations of the store: claim C18 *)

\* a step of index_project(force=True) that returned
ForcedIndexStep ==
    /\ last'.op = "index" /\ last'.force
    /\ outcome'.op = "none"
    /\ vars' # vars

\* the fragments and the file metadata stored before the step are gone
EarlierFragmentsRemoved ==
    /\ Ids(chunks') \cap Ids(chunks) = {}
    /\ chunks' = Produced(chunks', last')
    /\ \A p \in DOMAIN file_meta' : p \in Range(last'.new)

\* reset leaves an empty store
ResetEmptiesStore ==
    outcome'.op = "reset" =>
        /\ count_chunks(chunks') = 0
        /\ count_memories(memories') = 0
        /\ DOMAIN meta' = {}
        /\ DOMAIN file_meta' = {}

\* the keys index_project writes when it has embedded fragments
RunKeys == {"tfidf_state", "embedding_dim", "embedding_backend", "last_indexed", "project_path"}

\* C18: a forced reindex and clear_chunks remove all fragments and all file
\* metadata and leave every memory and every key/value metadata entry
\* unchanged; reset leaves no fragment, no memory and no metadata key.
C18_ClearKeepsMemoriesAndMeta ==
    [][/\ ForcedIndexStep =>
            /\ EarlierFragmentsRemoved
            /\ memories' = memories
            /\ \A k \in DOMAIN meta : k \in DOMAIN meta' /\ meta'[k] = meta[k]
       /\ outcome'.op = "clear_chunks" =>
            /\ chunks' = {} /\ DOMAIN file_meta' = {}
            /\ memories' = memories
            /\ meta' = meta
       /\ ResetEmptiesStore]_vars

\* C18, with the metadata a forced reindex rewrites: clear_chunks leaves every
\* memory and every metadata entry unchanged; a forced reindex leaves every
\* memory unchanged and removes no metadata key, but rewrites the keys of the
\* run when it has found files; no operation other than reset and
\* delete_memory removes a memory, and none other than reset a metadata key.
C18_ClearKeepsMemoriesAndMetaKeys ==
    [][/\ ForcedIndexStep =>
            /\ EarlierFragmentsRemoved
            /\ memories' = memories
            /\ DOMAIN meta \subseteq DOMAIN meta'
            /\ \A k \in DOMAIN meta : meta'[k] # meta[k] => k \in RunKeys
            /\ last'.ret = "no_files" => meta' = meta
            /\ last'.ret = "processed" => RunKeys \ {"tfidf_state"} \subseteq DOMAIN meta'
       /\ outcome'.op = "clear_chunks" =>
            /\ chunks' = {} /\ DOMAIN file_meta' = {}
            /\ memories' = memories
            /\ meta' = meta
       /\ outcome'.op \notin {"reset", "delete_memory"} => memories \subseteq memories'
       /\ outcome'.op # "reset" => DOMAIN meta \subseteq DOMAIN meta'
       /\ ResetEmptiesStore]_vars

\* a store with fragments, a memory and metadata has been emptied by reset
C18_WitnessReset ==
    /\ outcome.op = "reset"
    /\ chunks = {} /\ memories = {}
    /\ DOMAIN meta = {} /\ DOMAIN file_meta = {}

\* a forced reindex has replaced the fragments of a store that holds a memory
C18_Witness ==
    /\ last.op = "index" /\ last.force /\ last.ret = "processed"
    /\ outcome.op = "none"
    /\ memories # {}
    /\ chunks # {}
    /\ HasMeta(meta, "tfidf_state")

-----------------------------------------------------------------------------
(* Upsert by id: claim C19 *)

\* the last record of the batch that carries the id
LastWithId(batch, id) ==
    batch[CHOOSE i \in DOMAIN batch :
            batch[i].id = id /\ \A j \in DOMAIN batch : batch[j].id = id => j <= i]

\* table `after` is table `before` with the records of batch put under their ids
Upserted(before, after, batch) ==
    LET ids == {batch[i].id : i \in DOMAIN batch}
    IN /\ Ids(after) = Ids(before) \cup ids
       /\ Cardinality(after) = Cardinality(before) + Cardinality(ids \ Ids(before))
       /\ \A id \in ids :
            /\ get_record(after, id).content = LastWithId(batch, id).content
            /\ \A r \in after : r.id = id => r = get_record(after, id)
       /\ \A r \in before : r.id \notin ids => r \in after

\* C19: add_chunks and add_memory put each record under its id: a stored id
\* gets the new record, the count grows only by the ids that were not stored,
\* a get by the id returns the new content, and adding the same records again
\* changes nothing.
C19_UpsertById ==
    [][/\ outcome'.op = "add_chunks" =>
            /\ Upserted(chunks, chunks', outcome'.args)
            /\ count_chunks(chunks') = Cardinality(Ids(chunks'))
            /\ add_chunks(chunks', outcome'.args) = chunks'
       /\ outcome'.op = "add_memory" =>
            /\ Upserted(memories, memories', outcome'.args)
            /\ count_memories(memories') = Cardinality(Ids(memories'))
            /\ add_memory(memories', outcome'.args[1]) = memories']_vars

\* a chunk has been added under an id that was stored with another content
C19_Witness ==
    /\ outcome.op = "add_chunks"
    /\ Len(outcome.args) = 1
    /\ \E r \in outcome.before :
            /\ r.id = outcome.args[1].id
            /\ r.content # outcome.args[1].content
            /\ get_record(chunks, r.id).content = outcome.args[1].content
    /\ count_chunks(chunks) = Cardinality(outcome.before)

-----------------------------------------------------------------------------
(* Saving and restoring the embedder: claim C20 *)

\* the idf array in numbers
IdfValues(e) == [i \in DOMAIN e.idf |-> IdfMilli(e.idf[i][1], e.idf[i][2])]

\* C20: the embedder from_state builds from the state save_state returned,
\* directly or through json.dumps and json.loads, has the max_features, the
\* vocabulary and the idf of the original and embeds every text to the
\* vector the original embeds it to.
C20_RestoredEmbedsAlike ==
    /\ emb.op \in {"from_state", "embed"} =>
            /\ emb.restored.fitted
            /\ emb.restored.max_features = emb.e.max_features
            /\ emb.restored.vocabulary = emb.e.vocabulary
            /\ IdfValues(emb.restored) = IdfValues(emb.e)
            /\ \A text \in EmbedTexts :
                    /\ embed_text(emb.restored, text).dim = embed_text(emb.e, text).dim
                    /\ Vector(embed_text(emb.restored, text)) = Vector(embed_text(emb.e, text))
    /\ emb.op = "embed" =>
            /\ emb.vr.dim = emb.v.dim
            /\ Vector(emb.vr) = Vector(emb.v)

\* an embedder of two tokens restored through JSON has embedded a text of its
\* vocabulary
C20_Witness ==
    /\ emb.op = "embed"
    /\ emb.json
    /\ Len(emb.e.vocabulary) = 2
    /\ \E i \in DOMAIN emb.v.w : emb.v.w[i][1] > 0
    /\ \E i \in DOMAIN emb.vr.w : Vector(emb.vr)[i] > 0

-----------------------------------------------------------------------------
(* Fitting the vocabulary: claim C21 *)

\* the first place of a token in a text
FirstPos(text, tok) ==
    CHOOSE i \in DOMAIN text : text[i] = tok /\ \A j \in DOMAIN text : text[j] = tok => i <= j

\* token a is met before token b when the corpus is read text by text
MetBefore(texts, a, b) ==
    \/ FirstDoc(texts, a) < FirstDoc(texts, b)
    \/ /\ FirstDoc(texts, a) = FirstDoc(texts, b)
       /\ FirstPos(texts[FirstDoc(texts, a)], a) <= FirstPos(texts[FirstDoc(texts, a)], b)

\* the tokens of the corpus by descending document frequency, ties in the
\* order the tokens are first met
ByFrequencyThenEncounter(texts) ==
    LET toks == UNION {Range(texts[i]) : i \in DOMAIN texts}
    IN CHOOSE p \in Perms(toks) : \A i, j \in DOMAIN p : i < j =>
            \/ DocFreq(texts, p[i]) > DocFreq(texts, p[j])
            \/ /\ DocFreq(texts, p[i]) = DocFreq(texts, p[j])
               /\ MetBefore(texts, p[i], p[j])

\* C21: fit keeps the first max_features tokens by descending document
\* frequency, ties broken by the order in which the tokens are first met in
\* the corpus, at the slots 0..n-1 in that order; so every fit of the same
\* corpus yields the same vocabulary.
C21_FitOrdersByFrequencyThenEncounter ==
    [][(emb.op = "new" /\ emb'.op = "fit") =>
            LET p == ByFrequencyThenEncounter(emb.corpus)
            IN /\ emb'.e.vocabulary = SubSeq(p, 1, Min(emb.e.max_features, Len(p)))
               /\ Cardinality(Fit(emb.e, emb.corpus)) = 1]_vars

-----------------------------------------------------------------------------
(* The sliding window: claims C23 and C28 *)

\* C28: in every call of the sliding window, for every max_chunk_tokens >= 0
\* and overlap_tokens >= 0, the start offset of the window strictly increases
\* from one iteration to the next until the window end reaches the end of the
\* text.
C28_WindowStartIncreases ==
    [][(chunker.op = "window" /\ chunker'.op = "window" /\ ~chunker'.returned) =>
            chunker'.current_start > chunker.current_start]_vars


\* the newlines of the text at offsets below `offset`
NewlinesBefore(content, offset) ==
    Cardinality({i \in DOMAIN content : i <= offset /\ content[i] = "\n"})

\* the characters of the window [w[1], w[2])
WindowText(content, w) == SubSeq(content, w[1] + 1, w[2])

\* the windows with a character that is no whitespace, in their order
KeptWindows(content, ws) ==
    SortedSeq({k \in DOMAIN ws : \E i \in (ws[k][1] + 1)..ws[k][2] : ~IsSpace(content[i])})

\* C23: with 0 <= O < W the sliding window takes the windows
\* [k*(W-O), min(k*(W-O)+W, L)) for k = 0, 1, ... and stops at the first whose
\* end reaches L; every character lies in a window, exactly the windows that
\* are not whitespace-only are emitted, and a fragment has start_line = 1 +
\* newlines before its start offset and end_line = 1 + newlines before its end
\* offset.
C23_WindowsCoverText ==
    (/\ chunker.op = "window" /\ chunker.returned
     /\ chunker.overlap_chars < chunker.chars_per_chunk) =>
        LET W == chunker.chars_per_chunk
            O == chunker.overlap_chars
            L == chunker.total_chars
            ws == chunker.windows
            kept == KeptWindows(chunker.content, ws)
        IN /\ L = 0 => ws = << >>
           /\ L > 0 => Len(ws) >= 1 /\ ws[Len(ws)][2] = L
           /\ \A k \in DOMAIN ws :
                /\ ws[k][1] = (k - 1) * (W - O)
                /\ ws[k][2] = Min((k - 1) * (W - O) + W, L)
                /\ k < Len(ws) => ws[k][2] < L
           /\ \A i \in 1..L : \E k \in DOMAIN ws : ws[k][1] < i /\ i <= ws[k][2]
           /\ Len(chunker.chunks) = Len(kept)
           /\ \A j \in DOMAIN kept :
                LET w == ws[kept[j]]
                    c == chunker.chunks[j]
                IN /\ c.content = Strip(WindowText(chunker.content, w))
                   /\ c.start_line = 1 + NewlinesBefore(chunker.content, w[1])
                   /\ c.end_line = 1 + NewlinesBefore(chunker.content, w[2])

\* two overlapping windows, the first one whitespace-only and dropped
C23_Witness ==
    /\ chunker.op = "window" /\ chunker.returned
    /\ chunker.overlap_chars > 0
    /\ chunker.overlap_chars < chunker.chars_per_chunk
    /\ Len(chunker.windows) = 2
    /\ Len(chunker.chunks) = 1
    /\ chunker.chunks[1].start_line > 1
    /\ chunker.chunks[1].end_line > chunker.chunks[1].start_line

-----------------------------------------------------------------------------
(* The context block: claim C24 *)

\* the tokens charged for the first n results
Charged(results, n) ==
    LET sum[i \in 0..n] == IF i = 0 THEN 0 ELSE sum[i - 1] + (results[i].len \div 4 + 20)
    IN sum[n]

\* C24: build_context includes a prefix of the ranked results, charging each
\* len(content)//4 + 20 tokens, and stops at the first result that would make
\* the total exceed max_tokens; the total charged for the included results
\* does not exceed max_tokens and the header gives their number.
C24_ContextIsBudgetedPrefix ==
    chunker.op = "build_context" =>
        LET n == Len(chunker.sections)
        IN /\ n <= Len(chunker.results)
           /\ chunker.sections = SubSeq(chunker.results, 1, n)
           /\ chunker.total_tokens = Charged(chunker.results, n)
           /\ n > 0 => chunker.total_tokens <= chunker.max_tokens
           /\ n < Len(chunker.results) =>
                Charged(chunker.results, n + 1) > chunker.max_tokens
           /\ chunker.results # << >> => chunker.header = n

\* two results are included and the third would exceed the budget
C24_Witness ==
    /\ chunker.op = "build_context"
    /\ Len(chunker.results) = 3
    /\ Len(chunker.sections) = 2
    /\ chunker.header = 2
    /\ chunker.total_tokens < chunker.max_tokens

-----------------------------------------------------------------------------
(* Line ranges of the Python chunker: claim C29 *)

\* the line of the character at place i of a text
LineOf(content, i) == 1 + NewlinesBefore(content, i - 1)

\* every fragment of a window fallback covers the lines of its characters
FallbackCoversLines(w) ==
    LET kept == KeptWindows(w.content, w.windows)
    IN \A j \in DOMAIN kept :
        \A i \in (w.windows[kept[j]][1] + 1)..w.windows[kept[j]][2] :
            ~IsSpace(w.content[i]) =>
                /\ w.chunks[j].start_line <= LineOf(w.content, i)
                /\ LineOf(w.content, i) <= w.chunks[j].end_line

\* C29: every fragment the Python chunker emits has a line range
\* [start_line, end_line] that contains the number of every source line its
\* content is drawn from, the trailing Module fragment included.
C29_RangeCoversSourceLines ==
    chunker.op = "chunk_python" =>
        /\ \A k \in DOMAIN chunker.chunks :
            \A i \in Range(chunker.chunks[k].lines) :
                chunker.chunks[k].start_line <= i /\ i <= chunker.chunks[k].end_line
        /\ chunker.fallback.op = "window" => FallbackCoversLines(chunker.fallback)

-----------------------------------------------------------------------------
(* chunk_file: claim C22 *)

\* the number of fragments chunk_file returns
Returned(c) ==
    Len(c.chunks) + (IF c.fallback.op = "window" THEN Len(c.fallback.chunks) ELSE 0)

\* C22: for a readable file chunk_file raises nothing, whatever the suffix and
\* whatever the parser of the format does; it returns no fragment for an empty
\* or whitespace-only file and at least one for a file with a character that
\* is no whitespace.
C22_NonEmptyFileHasFragments ==
    (chunker.op = "chunk_file" /\ chunker.readable) =>
        /\ chunker.raises = "none"
        /\ (\A i \in DOMAIN chunker.file.lines : chunker.file.lines[i] = "blank")
                => Returned(chunker) = 0
        /\ (\E i \in DOMAIN chunker.file.lines : chunker.file.lines[i] # "blank")
                => Returned(chunker) > 0

-----------------------------------------------------------------------------
(* remember: claim C30 *)

\* a call of remember returned in this step
RememberStep == outcome'.op = "remember" /\ vars' # vars

C30_WitnessIndexed ==
    /\ outcome.op = "remember"
    /\ HasMeta(meta, "tfidf_state")
    /\ chunks # {}
    /\ \E m \in memories : <<m.content, m.memory_type, m.tags>> = outcome.args
                              /\ m.embedding.w # << >>

-----------------------------------------------------------------------------
(* One vocabulary for the query and the stored vectors: claim C25 *)

\* the vector the persisted embedder state gives the content of a record
UnderPersistedState(r) ==
    EmbBlob(embed_text(query_restore_embedder(meta).embedder, r.content))

\* C25: whenever the store holds an embedder search can restore, every
\* stored vector of a fragment or of a memory is the vector that embedder
\* gives the record's content: the same length and the same numbers.
C25_VectorsOfPersistedState ==
    query_restore_embedder(meta).raises = "none" =>
        \A r \in get_all_embeddings(chunks) \cup get_all_embeddings(memories) :
            /\ r.embedding.dim = UnderPersistedState(r).dim
            /\ r.embedding.src = UnderPersistedState(r).src
            /\ Vector(r.embedding) = Vector(UnderPersistedState(r))

-----------------------------------------------------------------------------
(* Index runs that fail partway: claims C26 and C27 *)

\* a call of index_project raised after it had opened the store
FailedIndexStep == last'.op = "index_raises" /\ vars' # vars

\* C27: when index_project raises after it started (a ChunkError of an
\* unreadable file, an error of the embedder), the stored fragments, the file
\* metadata and the project metadata are what they were before the call.
C27_FailedRunLeavesStore ==
    [][FailedIndexStep =>
        /\ chunks' = chunks
        /\ file_meta' = file_meta
        /\ meta' = meta]_vars

\* C26: when an index_project pass has returned, also after passes that
\* raised, the chunk_count of every file metadata record is the number of
\* stored fragments of that file.
C26_ChunkCountIsStoredFragments ==
    last.op = "index" =>
        \A p \in DOMAIN file_meta :
            file_meta[p].chunk_count = Cardinality(ChunksOf(chunks, p))

=============================================================================
